---------------------------- MODULE Spec2Model ----------------------------
(***************************************************************************)
(* A model of cosmos/chainparse (src/chainparse.go).                       *)
(*                                                                         *)
(* Several specifications share the module:                                *)
(*   Spec         fetcher.traverse: the registry scan, the feeder          *)
(*                goroutine, the dispatch loop, one worker goroutine per   *)
(*                project (each calling fetcher.run) and the collection    *)
(*                loop, under every interleaving.                          *)
(*   SpecLive     Spec with weak fairness: every goroutine that can take a *)
(*                step eventually takes one.                               *)
(*   SpecExtract  extractCosmosTuples applied to bounded manifests.        *)
(*   SpecFetch    fetcher.fetchChainData: the archive download followed    *)
(*                by traverse.                                             *)
(*   SpecHead     the .git/HEAD parse of defaultBranchForRepo.             *)
(*   SpecRun      fetcher.run of sibling projects, goroutine by goroutine. *)
(*   SpecRunLive  SpecRun with weak fairness on the sends of the two       *)
(*                goroutines of each call.                                 *)
(*   SpecCache    githubFetchDefaultBranchForRepo called concurrently.     *)
(*   SpecEntry    SpecCache on a fetcher built by any of the constructors. *)
(*   SpecTemp     a call of fetchChainData and a call of                   *)
(*                defaultBranchForRepo side by side, for the directories   *)
(*                the two create.                                          *)
(*   SpecClone    one call of defaultBranchForRepo, step by step, with     *)
(*                weak fairness on its steps.                              *)
(*   SpecZip      overlapping calls of downloadAndUnzipRegistry and the    *)
(*                file registry.zip they share.                            *)
(*                                                                         *)
(* Go strings that the code inspects (module paths, versions, URLs) are    *)
(* sequences of tokens; concatenation is \o, and a substring or suffix     *)
(* test is a test on contiguous tokens.  Chain names, which the code       *)
(* compares with <, are sequences of byte values.  A nil pointer is the    *)
(* empty tuple <<>> and a non-nil pointer to v is <<v>>.                   *)
(***************************************************************************)
EXTENDS Integers, Sequences, FiniteSets, TLC

VARIABLES
    descs,        \* the chain.json files of the extracted registry, in walk order
    inputs,       \* traverse: inputs (result of findChainJSONFiles), pointers
    mpc,          \* traverse: position of the calling goroutine
    mcur,         \* traverse: the cs just received by the dispatch loop
    fpc,          \* feeder goroutine: position
    fidx,         \* feeder goroutine: index of the next input to send
    inputCh,      \* buffered channel inputCh (indices into inputs)
    inputClosed,  \* close(inputCh) has run
    wgN,          \* the WaitGroup counter
    outputCh,     \* buffered channel outputCh
    outputClosed, \* close(outputCh) has run
    wst,          \* worker goroutine of input i: position
    wres,         \* worker goroutine of input i: what fr.run returned
    output,       \* traverse: the slice output
    ret,          \* what traverse returned: <<>> before it returns
    cancelled,    \* traverse's deferred cancel() has run
    panicked,     \* a goroutine panicked (the process is gone)
    xmodF,        \* SpecExtract: the parsed manifest
    xres,         \* SpecExtract: <<>> or the triple extractCosmosTuples returned
    xreq,         \* SpecExtract: the triple found in the Require directives
    xrep,         \* SpecExtract: the triple found in the Replace directives
    archive,      \* SpecFetch: how the download of the registry archive ends
    registryDir,  \* SpecFetch: the extraction directory of fetchChainData
    fret,         \* SpecFetch: <<>> or what fetchChainData returned
    hname,        \* SpecHead: the default branch of the cloned repository
    hcontent,     \* SpecHead: the content of the clone's .git/HEAD
    hres,         \* SpecHead: <<>> or what the parse of .git/HEAD returned
    rseed,        \* SpecRun: seedCS of each call of run
    rpc,          \* SpecRun: position of each call of run
    rcancel,      \* SpecRun: the call's cancel() has run (its derived ctx is done)
    bcancel,      \* SpecRun: the ctx handed to the calls of run is done
    fgo,          \* SpecRun: position of the call's face-value goroutine
    fmodRes,      \* SpecRun: <<>> or modRes, the response client.Do gave the goroutine
    fcse,         \* SpecRun: <<>> or what retrieveModFile returned to the goroutine
    frCh,         \* SpecRun: the call's channel frCh
    lgo,          \* SpecRun: position of the call's latest goroutine
    latestCh,     \* SpecRun: the call's channel latestCh
    rface,        \* SpecRun: <<>> or faceValueCSE, what the call received from frCh
    rret,         \* SpecRun: <<>> or what the call returned
    crepo,        \* SpecCache: orgRepo of each call
    cpc,          \* SpecCache: position of each call
    muHeld,       \* SpecCache: the calls that hold fr.mu
    repoCache,    \* SpecCache: fr.repoCache, <<>> for an absent key
    crepoVal,     \* SpecCache: the call's local repo, <<>> for nil
    cret,         \* SpecCache: <<>> or what the call returned
    dmk,          \* SpecClone: how os.MkdirTemp ends
    dclone,       \* SpecClone: how git clone ends when left alone
    dread,        \* SpecClone: how os.ReadFile of .git/HEAD ends
    dcontent,     \* SpecClone: the content of .git/HEAD
    dpc,          \* SpecClone: position of the call of defaultBranchForRepo
    tmpDir,       \* SpecClone: the temporary clone directory
    dctx,         \* SpecClone: the caller's ctx is done
    dret,         \* SpecClone: <<>> or what the call returned
    zipFile,      \* SpecZip: the content of registry.zip in the working directory
    zpc,          \* SpecZip: position of each run in downloadAndUnzipRegistry
    zbody,        \* SpecZip: <<>> or the archive each run received
    zoff,         \* SpecZip: the write offset of each run's descriptor of registry.zip
    zrd,          \* SpecZip: <<>> or the central directory each run's zip.Reader holds
    zdir,         \* SpecZip: the files in each run's registryDir
    zret          \* SpecZip: <<>> or how each run's download step ended

tvars == <<descs, inputs, mpc, mcur, fpc, fidx, inputCh, inputClosed, wgN,
           outputCh, outputClosed, wst, wres, output, ret, cancelled, panicked>>
xvars == <<xmodF, xres, xreq, xrep>>
fvars == <<archive, registryDir, fret>>
hvars == <<hname, hcontent, hres>>
rvars == <<rseed, rpc, rcancel, bcancel, fgo, fmodRes, fcse, frCh, lgo, latestCh,
           rface, rret>>
cvars == <<crepo, cpc, muHeld, repoCache, crepoVal, cret>>
dvars == <<dmk, dclone, dread, dcontent, dpc, tmpDir, dctx, dret>>
zvars == <<zipFile, zpc, zbody, zoff, zrd, zdir, zret>>
ovars == <<fvars, hvars, rvars, cvars, dvars, zvars>>
notHead == <<tvars, xvars, fvars, rvars, cvars, dvars, zvars>>
notRun == <<tvars, xvars, fvars, hvars, cvars, dvars, zvars>>
notCache == <<tvars, xvars, fvars, hvars, rvars, dvars, zvars>>
notZip == <<tvars, xvars, fvars, hvars, rvars, cvars, dvars>>
notClone == <<tvars, xvars, fvars, hvars, rvars, cvars, zvars>>
notFetch == <<xvars, hvars, rvars, cvars, dvars, zvars>>
vars == <<tvars, xvars, ovars>>

-----------------------------------------------------------------------------
(* Bounds *)

MaxProjects == 2
MaxBranchSegs == 2
MaxTasks == 2
MaxCallers == 2
MaxTempProjects == 1
MaxRequire == 2
MaxReplace == 2

-----------------------------------------------------------------------------
(* Strings *)

\* strings.Contains / regexp substring match on token strings
Contains(s, pat) ==
    \E i \in 0..(Len(s) - Len(pat)) : SubSeq(s, i + 1, i + Len(pat)) = pat

\* strings.HasSuffix
HasSuffix(s, suf) ==
    /\ Len(s) >= Len(suf)
    /\ SubSeq(s, Len(s) - Len(suf) + 1, Len(s)) = suf

\* strings.TrimSuffix
TrimSuffix(s, suf) ==
    IF HasSuffix(s, suf) THEN SubSeq(s, 1, Len(s) - Len(suf)) ELSE s

\* Go's < on strings: bytewise lexicographic, a proper prefix is smaller
RECURSIVE StrLess(_, _)
StrLess(s, t) ==
    IF t = <<>> THEN FALSE
    ELSE IF s = <<>> THEN TRUE
    ELSE IF Head(s) # Head(t) THEN Head(s) < Head(t)
    ELSE StrLess(Tail(s), Tail(t))

SeqsUpTo(S, n) == UNION {[1..k -> S] : k \in 0..n}

-----------------------------------------------------------------------------
(* Manifest Version Extractor *)

\* var reTargets = regexp.MustCompile("cosmos-sdk|tendermint/tendermint|/ibc")
reTargets(path) ==
    \/ Contains(path, <<"cosmos-sdk">>)
    \/ Contains(path, <<"tendermint", "/", "tendermint">>)
    \/ Contains(path, <<"/", "ibc">>)

NoVersions == [cosmosSDKVers |-> <<>>, tendermintVers |-> <<>>, ibcVers |-> <<>>]

\* one iteration of the loop of extractCosmosTuplesByVersion
byVersionStep(acc, mod, isReplaceDirective) ==
    IF ~reTargets(mod.Path) THEN acc
    ELSE LET suffix == IF isReplaceDirective THEN <<"@">> \o mod.Path ELSE <<>>
         IN  IF HasSuffix(mod.Path, <<"cosmos-sdk">>)
             THEN [acc EXCEPT !.cosmosSDKVers = mod.Version \o suffix]
             ELSE IF HasSuffix(mod.Path, <<"tendermint">>)
             THEN [acc EXCEPT !.tendermintVers = mod.Version \o suffix]
             ELSE IF HasSuffix(mod.Path, <<"ibc", "-go">>)
             THEN [acc EXCEPT !.ibcVers = mod.Version \o suffix]
             ELSE acc

RECURSIVE byVersionLoop(_, _, _, _)
byVersionLoop(modSrcs, isReplaceDirective, i, acc) ==
    IF i > Len(modSrcs) THEN acc
    ELSE byVersionLoop(modSrcs, isReplaceDirective, i + 1,
                       byVersionStep(acc, modSrcs[i], isReplaceDirective))

extractCosmosTuplesByVersion(modSrcs, isReplaceDirective) ==
    byVersionLoop(modSrcs, isReplaceDirective, 1, NoVersions)

extractCosmosTuples(modF) ==
    LET requires == [i \in 1..Len(modF.Require) |-> modF.Require[i].Mod]
        req == extractCosmosTuplesByVersion(requires, FALSE)
        replaces == [i \in 1..Len(modF.Replace) |-> modF.Replace[i].New]
        rep == extractCosmosTuplesByVersion(replaces, TRUE)
    IN  [cosmosSDKVers  |-> IF rep.cosmosSDKVers # <<>> THEN rep.cosmosSDKVers
                            ELSE req.cosmosSDKVers,
         tendermintVers |-> IF rep.tendermintVers # <<>> THEN rep.tendermintVers
                            ELSE req.tendermintVers,
         ibcVers        |-> IF rep.ibcVers # <<>> THEN rep.ibcVers
                            ELSE req.ibcVers]

-----------------------------------------------------------------------------
(* Data model *)

\* type ChainSchema; Codebase and Latest are pointers
ChainSchema(name, nt, pretty, codebase) ==
    [ChainName |-> name, NetworkType |-> nt, Status |-> "live",
     PrettyName |-> pretty, Bech32Prefix |-> pretty, Codebase |-> codebase,
     IsMainnet |-> "", TendermintVersion |-> <<>>, CosmosSDKVersion |-> <<>>,
     IBCVersion |-> <<>>, Latest |-> <<>>]

\* type Codebase
Codebase(repoURL, recommended) ==
    <<[GitRepoURL |-> repoURL, RecommendedVersion |-> recommended]>>

GitHub(repo) == <<"https://github.com", "/", "o", "/", repo>>

NameA  == <<97>>
NameAB == <<97, 98>>
NameB  == <<98>>

\* The chain.json files a registry snapshot may hold.
Descriptors ==
    { [json |-> "ok", cs |-> ChainSchema(NameA, "mainnet", "A1",
                                Codebase(GitHub("same") \o <<"/">>, "v1.0"))],
      [json |-> "ok", cs |-> ChainSchema(NameA, "testnet", "A2",
                                Codebase(GitHub("diff"), "v1.0"))],
      [json |-> "ok", cs |-> ChainSchema(NameAB, "", "AB1",
                                Codebase(GitHub("nohead"), "v1.0"))],
      [json |-> "ok", cs |-> ChainSchema(NameB, "mainnet", "B1",
                                Codebase(GitHub("gone"), "v1.0"))],
      [json |-> "ok", cs |-> ChainSchema(NameB, "devnet", "B2",
                                Codebase(GitHub("down"), "v1.0"))],
      [json |-> "ok", cs |-> ChainSchema(NameAB, "mainnet", "AB2",
                                Codebase(GitHub("junk"), "v1.0"))],
      [json |-> "ok", cs |-> ChainSchema(NameA, "", "A3",
                                Codebase(GitHub("%zz"), "v1.0"))],
      [json |-> "ok", cs |-> ChainSchema(NameB, "testnet", "B3", <<>>)],
      [json |-> "malformed", cs |-> ChainSchema(<<>>, "", "", <<>>)] }

-----------------------------------------------------------------------------
(* The network and the repositories behind it: fixed responses per URL *)

PathSDK     == <<"github.com", "/", "cosmos", "/", "cosmos-sdk">>
PathSDKFork == <<"github.com", "/", "agoric-labs", "/", "cosmos-sdk">>
PathTM      == <<"github.com", "/", "tendermint", "/", "tendermint">>
PathTMFork  == <<"github.com", "/", "informalsystems", "/", "tendermint">>
PathComet   == <<"github.com", "/", "cometbft", "/", "cometbft">>
PathIBC     == <<"github.com", "/", "cosmos", "/", "ibc", "-go">>
PathIBCv3   == <<"github.com", "/", "cosmos", "/", "ibc", "-go", "/", "v3">>
PathCobra   == <<"github.com", "/", "spf13", "/", "cobra">>

Mod(path, version) == [Path |-> path, Version |-> version]

\* the go.mod of the pinned version (the shape of testdata/registry/mod/go.mod)
PinnedGoMod ==
    [Require |-> << [Mod |-> Mod(PathSDK, <<"v0.44.2">>)],
                    [Mod |-> Mod(PathIBC, <<"v1.2.0">>)],
                    [Mod |-> Mod(PathTM, <<"v0.34.13">>)] >>,
     Replace |-> << [Old |-> Mod(PathSDK, <<>>),
                     New |-> Mod(PathSDKFork, <<"v0.44.2-alpha">>)] >>]

\* a go.mod of the default branch that has moved on
LatestGoMod ==
    [Require |-> << [Mod |-> Mod(PathSDK, <<"v0.45.0">>)],
                    [Mod |-> Mod(PathIBC, <<"v1.2.0">>)],
                    [Mod |-> Mod(PathTM, <<"v0.34.13">>)] >>,
     Replace |-> << >>]

RawHost == "https://raw.githubusercontent.com"

\* What the transport answers for a URL.  Body is <<>> when the text is no
\* go.mod file and <<modF>> when modfile.Parse yields modF.
RoundTrip(url) ==
    LET repo == url[5]
        ref  == url[7]
    IN  CASE repo = "down" -> [err |-> TRUE,  StatusCode |-> 0,   Body |-> <<>>]
          [] repo = "gone" -> [err |-> FALSE, StatusCode |-> 404, Body |-> <<>>]
          [] repo = "junk" -> [err |-> FALSE, StatusCode |-> 200, Body |-> <<>>]
          [] repo = "diff" /\ ref = "main"
                           -> [err |-> FALSE, StatusCode |-> 200, Body |-> <<LatestGoMod>>]
          [] OTHER         -> [err |-> FALSE, StatusCode |-> 200, Body |-> <<PinnedGoMod>>]

\* What `git clone` leaves in .git/HEAD of the repository: <<>> when the
\* clone fails.
GitHEAD(repoURL) ==
    IF repoURL[Len(TrimSuffix(repoURL, <<"/">>))] = "nohead" THEN <<>>
    ELSE << <<"ref", ":", " ", "refs", "/", "heads", "/", "main", "\n">> >>

-----------------------------------------------------------------------------
(* Per-project resolver *)

Nil == [cs |-> <<>>, err |-> FALSE]
Err == [cs |-> <<>>, err |-> TRUE]

\* net/url.Parse: an invalid escape is an error; Path is what follows the host
urlParse(rawURL) ==
    IF Contains(rawURL, <<"%zz">>) THEN [err |-> TRUE, Path |-> <<>>]
    ELSE [err |-> FALSE, Path |-> Tail(rawURL)]

\* variant: an absent classification is reported like a foreign one
isMainnetOf_emptyIsNo(nt) ==
    IF nt # "mainnet" THEN "no" ELSE "yes"

isMainnetOf(nt) ==
    IF nt # "mainnet" THEN (IF nt = "" THEN "?" ELSE "no") ELSE "yes"

\* variant: the record is not a copy of the seed
retrieveModFile_blankCopy(ctxDone, url, seed) ==
    LET modRes == RoundTrip(url)
    IN  IF ctxDone \/ modRes.err THEN Err
        ELSE IF modRes.StatusCode < 200 \/ modRes.StatusCode > 299 THEN Nil
        ELSE IF modRes.Body = <<>> THEN Err
        ELSE LET v == extractCosmosTuples(modRes.Body[1])
                 blank == [seed EXCEPT !.ChainName = <<>>, !.NetworkType = "",
                                       !.Status = "", !.PrettyName = "",
                                       !.Bech32Prefix = "", !.Codebase = <<>>]
             IN  [cs |-> << [blank EXCEPT !.IBCVersion = v.ibcVers,
                                          !.TendermintVersion = v.tendermintVers,
                                          !.CosmosSDKVersion = v.cosmosSDKVers,
                                          !.IsMainnet = isMainnetOf(blank.NetworkType)] >>,
                  err |-> FALSE]

\* variant: a manifest that does not parse is treated as an empty one
retrieveModFile_ignoreParseErr(ctxDone, url, seed) ==
    LET modRes == RoundTrip(url)
    IN  IF ctxDone \/ modRes.err THEN Err
        ELSE IF modRes.StatusCode < 200 \/ modRes.StatusCode > 299 THEN Nil
        ELSE LET v == IF modRes.Body = <<>> THEN NoVersions
                      ELSE extractCosmosTuples(modRes.Body[1])
             IN  [cs |-> << [seed EXCEPT !.IBCVersion = v.ibcVers,
                                         !.TendermintVersion = v.tendermintVers,
                                         !.CosmosSDKVersion = v.cosmosSDKVers,
                                         !.IsMainnet = isMainnetOf(seed.NetworkType)] >>,
                  err |-> FALSE]

\* variant: a non-2xx answer yields the copied seed instead of nil
retrieveModFile_keepOnNon2xx(ctxDone, url, seed) ==
    LET modRes == RoundTrip(url)
    IN  IF ctxDone \/ modRes.err THEN Err
        ELSE IF modRes.StatusCode < 200 \/ modRes.StatusCode > 299
             THEN [cs |-> <<seed>>, err |-> FALSE]
        ELSE IF modRes.Body = <<>> THEN Err
        ELSE LET v == extractCosmosTuples(modRes.Body[1])
             IN  [cs |-> << [seed EXCEPT !.IBCVersion = v.ibcVers,
                                         !.TendermintVersion = v.tendermintVers,
                                         !.CosmosSDKVersion = v.cosmosSDKVers,
                                         !.IsMainnet = isMainnetOf(seed.NetworkType)] >>,
                  err |-> FALSE]

\* ctxDone: the context handed to the request is already cancelled
retrieveModFile(ctxDone, url, seed) ==
    LET modRes == RoundTrip(url)
    IN  IF ctxDone \/ modRes.err THEN Err
        ELSE IF modRes.StatusCode < 200 \/ modRes.StatusCode > 299 THEN Nil
        ELSE IF modRes.Body = <<>> THEN Err
        ELSE LET v == extractCosmosTuples(modRes.Body[1])
             IN  [cs |-> << [seed EXCEPT !.IBCVersion = v.ibcVers,
                                         !.TendermintVersion = v.tendermintVers,
                                         !.CosmosSDKVersion = v.cosmosSDKVers,
                                         !.IsMainnet = isMainnetOf(seed.NetworkType)] >>,
                  err |-> FALSE]

\* strings.Split(s, ":"): the pieces between the ":" tokens
RECURSIVE SplitColon(_)
SplitColon(s) ==
    IF \A i \in 1..Len(s) : s[i] # ":" THEN <<s>>
    ELSE LET i == CHOOSE k \in 1..Len(s) :
                      s[k] = ":" /\ \A j \in 1..(k - 1) : s[j] # ":"
         IN  <<SubSeq(s, 1, i - 1)>> \o SplitColon(SubSeq(s, i + 1, Len(s)))

\* strings.LastIndex(s, "/"), 1-based, 0 when absent
LastIndexSlash(s) ==
    IF \A i \in 1..Len(s) : s[i] # "/" THEN 0
    ELSE CHOOSE k \in 1..Len(s) : s[k] = "/" /\ \A j \in (k + 1)..Len(s) : s[j] # "/"

IsSpace(c) == c \in {" ", "\n"}

\* strings.TrimSpace
RECURSIVE TrimSpace(_)
TrimSpace(s) ==
    IF s = <<>> THEN s
    ELSE IF IsSpace(Head(s)) THEN TrimSpace(Tail(s))
    ELSE IF IsSpace(s[Len(s)]) THEN TrimSpace(SubSeq(s, 1, Len(s) - 1))
    ELSE s

\* defaultBranchForRepo from the split of the .git/HEAD content to its
\* return; the result is [err, branch]
parseGitHEAD(gitHEAD) ==
    LET splits == SplitColon(gitHEAD)
    IN  IF Len(splits) # 2 THEN [err |-> TRUE, branch |-> <<>>]
        ELSE LET i == LastIndexSlash(splits[2])
             IN  [err |-> FALSE,
                  branch |-> TrimSpace(SubSeq(splits[2], i + 1, Len(splits[2])))]

\* the clone or the read of .git/HEAD fails, or the content is parsed
defaultBranchForRepo(ctxDone, orgRepo, repoURL) ==
    LET head == GitHEAD(repoURL)
    IN  IF ctxDone \/ head = <<>> THEN [err |-> TRUE, branch |-> <<>>]
        ELSE parseGitHEAD(head[1])

\* the statements of the latest goroutine of run that follow its unconditional
\* return: resolve the default branch, then fetch that branch's go.mod
latestFetch(ctxDone, orgRepo, seedCS) ==
    LET db == defaultBranchForRepo(ctxDone, orgRepo, seedCS.Codebase[1].GitRepoURL)
    IN  IF db.err THEN Err
        ELSE retrieveModFile(ctxDone, <<RawHost>> \o orgRepo \o <<"/">> \o db.branch
                                        \o <<"/", "go.mod">>, seedCS)

\* the latest goroutine of run: err = errors.New("skipping"); return
latestGoroutine(ctxDone, orgRepo, seedCS) == Err

\* variant: an error of the latest goroutine fails the whole resolution
runMerge_failOnLatestErr(cs, lcse) ==
    IF lcse.err THEN Err
    ELSE IF lcse.cs # <<>> /\ cs # lcse.cs[1]
    THEN [cs |-> <<[cs EXCEPT !.Latest = lcse.cs]>>, err |-> FALSE]
    ELSE [cs |-> <<cs>>, err |-> FALSE]

\* run, from the receive on latestCh to its return
runMerge(cs, lcse) ==
    IF lcse.cs # <<>> /\ cs # lcse.cs[1]
    THEN [cs |-> <<[cs EXCEPT !.Latest = lcse.cs]>>, err |-> FALSE]
    ELSE [cs |-> <<cs>>, err |-> FALSE]

\* the URL of the pinned go.mod
rawGoModURL(orgRepo, seedCS) ==
    <<RawHost>> \o orgRepo \o <<"/", seedCS.Codebase[1].RecommendedVersion, "/", "go.mod">>

run(ctxDone, seedCS) ==
    LET gu == urlParse(seedCS.Codebase[1].GitRepoURL)
    IN  IF gu.err THEN Err
        ELSE LET orgRepo == TrimSuffix(gu.Path, <<"/">>)
                 faceValueCSE == retrieveModFile(ctxDone, rawGoModURL(orgRepo, seedCS), seedCS)
                 lcse == latestGoroutine(ctxDone, orgRepo, seedCS)
             IN  IF faceValueCSE.err THEN Err
                 ELSE IF faceValueCSE.cs = <<>> THEN Err
                 ELSE runMerge(faceValueCSE.cs[1], lcse)

-----------------------------------------------------------------------------
(* Registry scanner *)

\* the less function handed to sort.Slice
lessByChainName(oi, oj) == StrLess(oi[1].ChainName, oj[1].ChainName)

\* sort.Slice on a slice of at most 12 elements is an insertion sort
RECURSIVE insertSorted(_, _)
insertSorted(s, x) ==
    IF s = <<>> THEN <<x>>
    ELSE IF lessByChainName(x, s[Len(s)])
         THEN insertSorted(SubSeq(s, 1, Len(s) - 1), x) \o <<s[Len(s)]>>
         ELSE s \o <<x>>

RECURSIVE sortSliceFrom(_, _, _)
sortSliceFrom(s, i, acc) ==
    IF i > Len(s) THEN acc ELSE sortSliceFrom(s, i + 1, insertSorted(acc, s[i]))

\* variant: the slice is returned as collected
sortSlice_unsorted(s) == s

sortSlice(s) == sortSliceFrom(s, 1, <<>>)

\* variant: a descriptor without codebase aborts the walk
RECURSIVE walkDir_failOnNoCodebase(_, _, _)
walkDir_failOnNoCodebase(files, i, csL) ==
    IF i > Len(files) THEN [csL |-> csL, err |-> FALSE]
    ELSE IF files[i].json # "ok" THEN [csL |-> <<>>, err |-> TRUE]
    ELSE IF files[i].cs.Codebase = <<>> THEN [csL |-> <<>>, err |-> TRUE]
    ELSE walkDir_failOnNoCodebase(files, i + 1, Append(csL, <<files[i].cs>>))

\* the WalkDir callback of findChainJSONFiles, folded over the files
RECURSIVE walkDir(_, _, _)
walkDir(files, i, csL) ==
    IF i > Len(files) THEN [csL |-> csL, err |-> FALSE]
    ELSE IF files[i].json # "ok" THEN [csL |-> <<>>, err |-> TRUE]
    ELSE IF files[i].cs.Codebase = <<>> THEN walkDir(files, i + 1, csL)
    ELSE walkDir(files, i + 1, Append(csL, <<files[i].cs>>))

findChainJSONFiles(files) ==
    LET w == walkDir(files, 1, <<>>)
    IN  IF w.err THEN w ELSE [csL |-> sortSlice(w.csL), err |-> FALSE]

-----------------------------------------------------------------------------
(* Pipeline orchestrator: fetcher.traverse *)

InputChCap == 10
OutputChCap == 1

EmptyModF == [Require |-> <<>>, Replace |-> <<>>]

\* the variables of SpecExtract while another specification runs
ExtractIdle ==
    /\ xmodF = EmptyModF
    /\ xres = <<>>
    /\ xreq = NoVersions
    /\ xrep = NoVersions

\* traverse is not called
TraverseIdle ==
    /\ descs = <<>> /\ inputs = <<>> /\ mpc = "off" /\ mcur = 0
    /\ fpc = "off" /\ fidx = 1 /\ inputCh = <<>> /\ inputClosed = FALSE
    /\ wgN = 0 /\ outputCh = <<>> /\ outputClosed = FALSE
    /\ wst = <<>> /\ wres = <<>> /\ output = <<>> /\ ret = <<>>
    /\ cancelled = FALSE /\ panicked = FALSE

FetchIdle == archive = "ok" /\ registryDir = "none" /\ fret = <<>>

RunIdle ==
    /\ rseed = <<>> /\ rpc = <<>> /\ rcancel = <<>> /\ bcancel = FALSE
    /\ fgo = <<>> /\ fmodRes = <<>> /\ fcse = <<>> /\ frCh = <<>>
    /\ lgo = <<>> /\ latestCh = <<>> /\ rface = <<>> /\ rret = <<>>

CloneIdle ==
    /\ dmk = "ok" /\ dclone = "ok" /\ dread = "ok" /\ dcontent = <<>>
    /\ dpc = "off" /\ tmpDir = "none" /\ dctx = FALSE /\ dret = <<>>

CacheIdle ==
    /\ crepo = <<>> /\ cpc = <<>> /\ muHeld = {} /\ repoCache = <<>>
    /\ crepoVal = <<>> /\ cret = <<>>

HeadIdle == hname = <<>> /\ hcontent = <<>> /\ hres = <<>>

ZipIdle ==
    /\ zipFile = <<>> /\ zpc = <<>> /\ zbody = <<>> /\ zoff = <<>>
    /\ zrd = <<>> /\ zdir = <<>> /\ zret = <<>>

Init ==
    /\ descs \in SeqsUpTo(Descriptors, MaxProjects)
    /\ inputs = <<>>
    /\ mpc = "scan"
    /\ mcur = 0
    /\ fpc = "off"
    /\ fidx = 1
    /\ inputCh = <<>>
    /\ inputClosed = FALSE
    /\ wgN = 0
    /\ outputCh = <<>>
    /\ outputClosed = FALSE
    /\ wst = <<>>
    /\ wres = <<>>
    /\ output = <<>>
    /\ ret = <<>>
    /\ cancelled = FALSE
    /\ panicked = FALSE
    /\ ExtractIdle
    /\ FetchIdle
    /\ HeadIdle
    /\ RunIdle
    /\ CacheIdle
    /\ CloneIdle
    /\ ZipIdle

\* traverse up to the dispatch loop: the scan, the channels, the feeder
Scan ==
    /\ mpc = "scan" /\ ~panicked
    /\ LET r == findChainJSONFiles(descs)
       IN  IF r.err
           THEN /\ ret' = <<[output |-> <<>>, err |-> TRUE]>>
                /\ mpc' = "done"
                /\ UNCHANGED <<inputs, fpc, wst, wres>>
           ELSE /\ inputs' = r.csL
                /\ fpc' = "send"
                /\ mpc' = "range"
                /\ wst' = [i \in 1..Len(r.csL) |-> "idle"]
                /\ wres' = [i \in 1..Len(r.csL) |-> Nil]
                /\ ret' = ret
    /\ UNCHANGED <<descs, mcur, fidx, inputCh, inputClosed, wgN, outputCh,
                   outputClosed, output, cancelled, panicked, xvars, ovars>>

\* feeder: inputCh <- cs
FeederSend ==
    /\ fpc = "send" /\ ~panicked
    /\ fidx <= Len(inputs)
    /\ Len(inputCh) < InputChCap
    /\ inputCh' = Append(inputCh, fidx)
    /\ fidx' = fidx + 1
    /\ UNCHANGED <<descs, inputs, mpc, mcur, fpc, inputClosed, wgN, outputCh,
                   outputClosed, wst, wres, output, ret, cancelled, panicked, xvars, ovars>>

\* feeder: defer close(inputCh)
FeederCloseInput ==
    /\ fpc = "send" /\ ~panicked
    /\ fidx > Len(inputs)
    /\ inputClosed' = TRUE
    /\ fpc' = "wait"
    /\ UNCHANGED <<descs, inputs, mpc, mcur, fidx, inputCh, wgN, outputCh,
                   outputClosed, wst, wres, output, ret, cancelled, panicked, xvars, ovars>>

\* feeder: defer wg.Wait()
FeederWait ==
    /\ fpc = "wait" /\ ~panicked
    /\ wgN = 0
    /\ fpc' = "closeOut"
    /\ UNCHANGED <<descs, inputs, mpc, mcur, fidx, inputCh, inputClosed, wgN,
                   outputCh, outputClosed, wst, wres, output, ret, cancelled,
                   panicked, xvars, ovars>>

\* feeder: defer close(outputCh)
FeederCloseOutput ==
    /\ fpc = "closeOut" /\ ~panicked
    /\ outputClosed' = TRUE
    /\ fpc' = "done"
    /\ UNCHANGED <<descs, inputs, mpc, mcur, fidx, inputCh, inputClosed, wgN,
                   outputCh, wst, wres, output, ret, cancelled, panicked, xvars, ovars>>

\* dispatch loop: for cs := range inputCh
MainRecv ==
    /\ mpc = "range" /\ ~panicked
    /\ IF inputCh # <<>>
       THEN /\ mcur' = Head(inputCh)
            /\ inputCh' = Tail(inputCh)
            /\ mpc' = "spawn"
       ELSE /\ inputClosed
            /\ mpc' = "collect"
            /\ UNCHANGED <<mcur, inputCh>>
    /\ UNCHANGED <<descs, inputs, fpc, fidx, inputClosed, wgN, outputCh,
                   outputClosed, wst, wres, output, ret, cancelled, panicked, xvars, ovars>>

\* variant: a project is dispatched only when no worker is running
MainSpawn_oneAtATime ==
    /\ mpc = "spawn" /\ ~panicked
    /\ \A j \in DOMAIN wst : wst[j] \in {"idle", "done"}
    /\ wgN' = wgN + 1
    /\ wst' = [wst EXCEPT ![mcur] = "run"]
    /\ mpc' = "range"
    /\ UNCHANGED <<descs, inputs, mcur, fpc, fidx, inputCh, inputClosed, outputCh,
                   outputClosed, wres, output, ret, cancelled, panicked, xvars, ovars>>

\* dispatch loop: wg.Add(1); go func(cs) {...}(cs)
MainSpawn ==
    /\ mpc = "spawn" /\ ~panicked
    /\ wgN' = wgN + 1
    /\ wst' = [wst EXCEPT ![mcur] = "run"]
    /\ mpc' = "range"
    /\ UNCHANGED <<descs, inputs, mcur, fpc, fidx, inputCh, inputClosed, outputCh,
                   outputClosed, wres, output, ret, cancelled, panicked, xvars, ovars>>

\* variant: the worker sends whatever run returned
WorkerRun_sendUnchecked(i) ==
    /\ wst[i] = "run" /\ ~panicked
    /\ wres' = [wres EXCEPT ![i] = run(cancelled, inputs[i][1])]
    /\ wst' = [wst EXCEPT ![i] = "send"]
    /\ UNCHANGED <<descs, inputs, mpc, mcur, fpc, fidx, inputCh, inputClosed, wgN,
                   outputCh, outputClosed, output, ret, cancelled, panicked, xvars, ovars>>

\* worker: cs, err := fr.run(ctx, *cs)
WorkerRun(i) ==
    /\ wst[i] = "run" /\ ~panicked
    /\ LET r == run(cancelled, inputs[i][1])
       IN  /\ wres' = [wres EXCEPT ![i] = r]
           /\ wst' = [wst EXCEPT ![i] = IF ~r.err /\ r.cs # <<>> THEN "send" ELSE "exit"]
    /\ UNCHANGED <<descs, inputs, mpc, mcur, fpc, fidx, inputCh, inputClosed, wgN,
                   outputCh, outputClosed, output, ret, cancelled, panicked, xvars, ovars>>

\* worker: outputCh <- cs; a send on a closed channel panics
WorkerSend(i) ==
    /\ wst[i] = "send" /\ ~panicked
    /\ IF outputClosed
       THEN /\ panicked' = TRUE
            /\ UNCHANGED <<outputCh, wst>>
       ELSE /\ Len(outputCh) < OutputChCap
            /\ outputCh' = Append(outputCh, wres[i].cs)
            /\ wst' = [wst EXCEPT ![i] = "exit"]
            /\ panicked' = panicked
    /\ UNCHANGED <<descs, inputs, mpc, mcur, fpc, fidx, inputCh, inputClosed, wgN,
                   outputClosed, wres, output, ret, cancelled, xvars, ovars>>

\* worker: defer wg.Done()
WorkerExit(i) ==
    /\ wst[i] = "exit" /\ ~panicked
    /\ wgN' = wgN - 1
    /\ wst' = [wst EXCEPT ![i] = "done"]
    /\ UNCHANGED <<descs, inputs, mpc, mcur, fpc, fidx, inputCh, inputClosed,
                   outputCh, outputClosed, wres, output, ret, cancelled, panicked,
                   xvars, ovars>>

\* collection loop: for cs := range outputCh { output = append(output, cs) }
MainCollect ==
    /\ mpc = "collect" /\ ~panicked
    /\ outputCh # <<>>
    /\ output' = Append(output, Head(outputCh))
    /\ outputCh' = Tail(outputCh)
    /\ UNCHANGED <<descs, inputs, mpc, mcur, fpc, fidx, inputCh, inputClosed, wgN,
                   outputClosed, wst, wres, ret, cancelled, panicked, xvars, ovars>>

\* the loop ends, sort.Slice(output), return output, nil; deferred cancel()
MainReturn ==
    /\ mpc = "collect" /\ ~panicked
    /\ outputCh = <<>> /\ outputClosed
    /\ output' = sortSlice(output)
    /\ ret' = <<[output |-> sortSlice(output), err |-> FALSE]>>
    /\ cancelled' = TRUE
    /\ mpc' = "done"
    /\ UNCHANGED <<descs, inputs, mcur, fpc, fidx, inputCh, inputClosed, wgN,
                   outputCh, outputClosed, wst, wres, panicked, xvars, ovars>>

Next ==
    \/ Scan
    \/ FeederSend
    \/ FeederCloseInput
    \/ FeederWait
    \/ FeederCloseOutput
    \/ MainRecv
    \/ MainSpawn
    \/ \E i \in DOMAIN wst : WorkerRun(i)
    \/ \E i \in DOMAIN wst : WorkerSend(i)
    \/ \E i \in DOMAIN wst : WorkerExit(i)
    \/ MainCollect
    \/ MainReturn

Spec == Init /\ [][Next]_vars

\* no goroutine that can run is left waiting forever; fr.run always returns
SpecLive == Init /\ [][Next]_vars /\ WF_vars(Next)

-----------------------------------------------------------------------------
(* extractCosmosTuples on bounded manifests *)

Paths == {PathSDK, PathSDKFork, PathTM, PathTMFork, PathComet, PathIBC,
          PathIBCv3, PathCobra}

RequireSet == {[Mod |-> Mod(p, v)] : p \in Paths, v \in {<<"v1">>, <<"v3">>}}

\* replace Old => New: a dependency retargeted to itself or to a fork
Retargets ==
    { <<PathSDK, PathSDK>>, <<PathSDK, PathSDKFork>>,
      <<PathTM, PathTM>>, <<PathTM, PathTMFork>>, <<PathTM, PathComet>>,
      <<PathIBC, PathIBC>>, <<PathIBC, PathIBCv3>>,
      <<PathCobra, PathCobra>> }

ReplaceSet == {[Old |-> Mod(r[1], <<>>), New |-> Mod(r[2], <<"v2">>)] : r \in Retargets}

InitExtract ==
    /\ xmodF \in [Require : SeqsUpTo(RequireSet, MaxRequire),
                  Replace : SeqsUpTo(ReplaceSet, MaxReplace)]
    /\ xres = <<>>
    /\ xreq = NoVersions
    /\ xrep = NoVersions
    /\ FetchIdle
    /\ HeadIdle
    /\ RunIdle
    /\ CacheIdle
    /\ CloneIdle
    /\ ZipIdle
    /\ descs = <<>>
    /\ inputs = <<>>
    /\ mpc = "off"
    /\ mcur = 0
    /\ fpc = "off"
    /\ fidx = 1
    /\ inputCh = <<>>
    /\ inputClosed = FALSE
    /\ wgN = 0
    /\ outputCh = <<>>
    /\ outputClosed = FALSE
    /\ wst = <<>>
    /\ wres = <<>>
    /\ output = <<>>
    /\ ret = <<>>
    /\ cancelled = FALSE
    /\ panicked = FALSE

Extract ==
    /\ xres = <<>>
    /\ xres' = <<extractCosmosTuples(xmodF)>>
    /\ xreq' = extractCosmosTuplesByVersion(
                   [i \in 1..Len(xmodF.Require) |-> xmodF.Require[i].Mod], FALSE)
    /\ xrep' = extractCosmosTuplesByVersion(
                   [i \in 1..Len(xmodF.Replace) |-> xmodF.Replace[i].New], TRUE)
    /\ UNCHANGED <<xmodF, tvars, ovars>>

NextExtract == Extract

SpecExtract == InitExtract /\ [][NextExtract]_vars

-----------------------------------------------------------------------------
(* Properties of traverse *)

\* traverse has returned a list and a nil error
Returned == ret # <<>> /\ ~ret[1].err

\* fr.run of worker i has returned
RunReturned(i) == wst[i] \in {"send", "exit", "done"}

\* fr.run of worker i has returned a record and a nil error
Succeeded(i) == RunReturned(i) /\ ~wres[i].err /\ wres[i].cs # <<>>

CountIn(seq, e) == Cardinality({k \in DOMAIN seq : seq[k] = e})

\* the record as it was before retrieveModFile filled it in
SeedOf(r) ==
    [r EXCEPT !.IsMainnet = "", !.TendermintVersion = <<>>,
              !.CosmosSDKVersion = <<>>, !.IBCVersion = <<>>, !.Latest = <<>>]

\* C1: the list traverse returns is ordered by ChainName ascending: no
\* record is followed by one with a smaller ChainName.
C1_OutputSorted ==
    ret # <<>> =>
        \A k \in 1..(Len(ret[1].output) - 1) :
            ~StrLess(ret[1].output[k + 1][1].ChainName, ret[1].output[k][1].ChainName)

C1_Witness ==
    /\ Returned
    /\ Len(ret[1].output) = 2
    /\ StrLess(ret[1].output[1][1].ChainName, ret[1].output[2][1].ChainName)

\* C2: once traverse has returned, its list holds each record of a successful
\* run exactly as often as workers produced it, and nothing else.
C2_ExactlyOnePerSuccess ==
    Returned =>
        /\ \A i \in DOMAIN wst :
              Succeeded(i) =>
                  CountIn(ret[1].output, wres[i].cs) =
                      Cardinality({j \in DOMAIN wst : Succeeded(j) /\ wres[j].cs = wres[i].cs})
        /\ \A k \in DOMAIN ret[1].output :
              \E i \in DOMAIN wst : Succeeded(i) /\ wres[i].cs = ret[1].output[k]

\* C3: a run that fails puts nothing on the output channel or in the output
\* (every element there is a non-nil record sent by a worker whose run
\* succeeded), and traverse's error is nil whenever the scan succeeded.
C3_FailedRunContributesNothing ==
    /\ \A i \in DOMAIN wst :
          RunReturned(i) /\ (wres[i].err \/ wres[i].cs = <<>>) => wst[i] # "send"
    /\ LET all == outputCh \o output
       IN  \A k \in DOMAIN all :
              /\ all[k] # <<>>
              /\ CountIn(all, all[k]) <=
                    Cardinality({i \in DOMAIN wst : /\ wst[i] \in {"exit", "done"}
                                                    /\ Succeeded(i)
                                                    /\ wres[i].cs = all[k]})
    /\ (ret # <<>> /\ ~findChainJSONFiles(descs).err) => ~ret[1].err

C3_Witness ==
    /\ Returned
    /\ Len(ret[1].output) = 1
    /\ \E i \in DOMAIN wst : wst[i] = "done" /\ wres[i].err
    /\ \E i \in DOMAIN wst : wst[i] = "done" /\ Succeeded(i)

\* what the network holds for a seed project
URLParses(seed) == ~urlParse(seed.Codebase[1].GitRepoURL).err

OrgRepoOf(seed) == TrimSuffix(urlParse(seed.Codebase[1].GitRepoURL).Path, <<"/">>)

FaceResponse(seed) == RoundTrip(rawGoModURL(OrgRepoOf(seed), seed))

\* the pinned go.mod cannot be had: transport error, non-2xx or unparsable
FaceFetchFails(seed) ==
    /\ URLParses(seed)
    /\ LET r == FaceResponse(seed)
       IN  r.err \/ r.StatusCode < 200 \/ r.StatusCode > 299 \/ r.Body = <<>>

FaceFetchOK(seed) == URLParses(seed) /\ ~FaceFetchFails(seed)

\* the record derived from the pinned go.mod
FaceRecord(seed) == retrieveModFile(FALSE, rawGoModURL(OrgRepoOf(seed), seed), seed).cs

\* the record derived from the default branch's go.mod, <<>> when the branch
\* cannot be resolved or its go.mod cannot be had
LiveRecord(seed) == latestFetch(FALSE, OrgRepoOf(seed), seed).cs

\* C4: a project whose face-value fetch fails (transport error, non-2xx,
\* unparsable manifest) gets no record from run and has no record on the
\* output channel or in the output.
C4_FaceFailureDropsProject ==
    \A i \in DOMAIN wst :
        RunReturned(i) /\ FaceFetchFails(inputs[i][1]) =>
            /\ wres[i].cs = <<>>
            /\ \A e \in {(outputCh \o output)[k] : k \in DOMAIN (outputCh \o output)} :
                  e = <<>> \/ SeedOf(e[1]) # inputs[i][1]

C4_Witness ==
    /\ Returned
    /\ \E i \in DOMAIN wst :
          /\ wst[i] = "done"
          /\ FaceFetchFails(inputs[i][1])
          /\ FaceResponse(inputs[i][1]).StatusCode = 404
    /\ \E i \in DOMAIN wst :
          wst[i] = "done" /\ FaceFetchFails(inputs[i][1]) /\ FaceResponse(inputs[i][1]).err

C6_LatestAttachedWhenDifferent ==
    \A i \in DOMAIN wst :
        LET seed == inputs[i][1]
        IN  (Succeeded(i) /\ FaceFetchOK(seed) /\ LiveRecord(seed) # <<>>) =>
                wres[i].cs[1].Latest =
                    IF LiveRecord(seed) = FaceRecord(seed) THEN <<>> ELSE LiveRecord(seed)

\* a chain.json file that parses and has no codebase
HasNoCodebase(d) == d.json = "ok" /\ d.cs.Codebase = <<>>

HasCodebaseOrBroken(d) == ~HasNoCodebase(d)

\* C8: a descriptor without codebase changes nothing but its own absence:
\* the scan yields what it yields with those files removed (same error, same
\* list), traverse dispatches exactly that list, and no record of such a
\* descriptor is among the inputs, on the output channel or in the output.
C8_NoCodebaseIsSkipped ==
    /\ findChainJSONFiles(descs) = findChainJSONFiles(SelectSeq(descs, HasCodebaseOrBroken))
    /\ mpc # "scan" =>
          /\ (ret # <<>> /\ ret[1].err) = findChainJSONFiles(SelectSeq(descs, HasCodebaseOrBroken)).err
          /\ inputs = findChainJSONFiles(SelectSeq(descs, HasCodebaseOrBroken)).csL
    /\ LET all == inputs \o outputCh \o output
       IN  \A k \in DOMAIN all :
              all[k] # <<>> =>
                  \A j \in DOMAIN descs :
                      HasNoCodebase(descs[j]) => SeedOf(all[k][1]) # descs[j].cs

C8_Witness ==
    /\ Returned
    /\ Len(ret[1].output) = 1
    /\ \E j \in DOMAIN descs : HasNoCodebase(descs[j])

\* the list a run of traverse yields when every worker finishes, in
\* dispatch order, before the next one starts
RECURSIVE RefCollect(_)
RefCollect(i) ==
    IF i > Len(inputs) THEN <<>>
    ELSE LET r == run(FALSE, inputs[i][1])
         IN  (IF ~r.err /\ r.cs # <<>> THEN <<r.cs>> ELSE <<>>) \o RefCollect(i + 1)

RefOutput == sortSlice(RefCollect(1))

\* C9: for a fixed project list and fixed responses, every interleaving makes
\* traverse return the same list, the one of the run in dispatch order.
C9_SameListEveryInterleaving ==
    Returned => ret[1].output = RefOutput

\* C10: the mainnet flag of every record run got from retrieveModFile is
\* "yes" for the classification "mainnet", "?" for the empty one and "no"
\* for any other, the classification being the seed's.
C10_MainnetFlag ==
    \A i \in DOMAIN wst :
        (RunReturned(i) /\ wres[i].cs # <<>>) =>
            LET r == wres[i].cs[1]
            IN  /\ r.NetworkType = inputs[i][1].NetworkType
                /\ r.NetworkType = "mainnet" => r.IsMainnet = "yes"
                /\ r.NetworkType = "" => r.IsMainnet = "?"
                /\ r.NetworkType \notin {"mainnet", ""} => r.IsMainnet = "no"

C10_Witness ==
    /\ Returned
    /\ \E k \in DOMAIN ret[1].output : ret[1].output[k][1].IsMainnet = "?"
    /\ \E k \in DOMAIN ret[1].output : ret[1].output[k][1].IsMainnet = "no"

-----------------------------------------------------------------------------
(* Properties of extractCosmosTuples *)

\* some direct requirement names the dependency
Requires(modF, path) == \E k \in DOMAIN modF.Require : modF.Require[k].Mod.Path = path

\* the override directives that retarget the dependency
OverridesOf(modF, path) == {k \in DOMAIN modF.Replace : modF.Replace[k].Old.Path = path}

OverrideVersion(rp) == rp.New.Version \o <<"@">> \o rp.New.Path

\* C7: when a direct requirement names the framework dependency and an
\* override directive retargets it, the extracted framework version is an
\* override's version followed by "@" and the override's path; likewise for
\* the consensus engine and the interop protocol.
C7_OverrideWins ==
    xres # <<>> =>
        /\ (Requires(xmodF, PathSDK) /\ OverridesOf(xmodF, PathSDK) # {}) =>
              \E k \in OverridesOf(xmodF, PathSDK) :
                  xres[1].cosmosSDKVers = OverrideVersion(xmodF.Replace[k])
        /\ (Requires(xmodF, PathTM) /\ OverridesOf(xmodF, PathTM) # {}) =>
              \E k \in OverridesOf(xmodF, PathTM) :
                  xres[1].tendermintVers = OverrideVersion(xmodF.Replace[k])
        /\ (Requires(xmodF, PathIBC) /\ OverridesOf(xmodF, PathIBC) # {}) =>
              \E k \in OverridesOf(xmodF, PathIBC) :
                  xres[1].ibcVers = OverrideVersion(xmodF.Replace[k])

-----------------------------------------------------------------------------
(* fetcher.fetchChainData: the archive download, then traverse *)

\* How fetchChainData gets to traverse: os.MkdirTemp fails, or
\* downloadAndUnzipRegistry ends: the request fails in transport, the
\* response is non-2xx, registry.zip cannot be written or read back, the zip
\* reader rejects the archive, an entry cannot be materialized (panic), or
\* every chain.json entry is extracted.
ArchiveOutcomes ==
    {"mkdirtemp", "transport", "status", "file", "corrupt", "entry", "ok"}

\* the chain.json entries an archive may hold; "ioerror" is a file the walk
\* cannot open
FetchDescriptors ==
    { [json |-> "ok", cs |-> ChainSchema(NameA, "mainnet", "A1",
                                Codebase(GitHub("same") \o <<"/">>, "v1.0"))],
      [json |-> "ok", cs |-> ChainSchema(NameB, "mainnet", "B1",
                                Codebase(GitHub("gone"), "v1.0"))],
      [json |-> "ok", cs |-> ChainSchema(NameB, "testnet", "B3", <<>>)],
      [json |-> "malformed", cs |-> ChainSchema(<<>>, "", "", <<>>)],
      [json |-> "ioerror", cs |-> ChainSchema(<<>>, "", "", <<>>)] }

InitFetch ==
    /\ archive \in ArchiveOutcomes
    /\ registryDir = "none"
    /\ fret = <<>>
    /\ descs \in SeqsUpTo(FetchDescriptors, MaxProjects)
    /\ inputs = <<>>
    /\ mpc = "download"
    /\ mcur = 0
    /\ fpc = "off"
    /\ fidx = 1
    /\ inputCh = <<>>
    /\ inputClosed = FALSE
    /\ wgN = 0
    /\ outputCh = <<>>
    /\ outputClosed = FALSE
    /\ wst = <<>>
    /\ wres = <<>>
    /\ output = <<>>
    /\ ret = <<>>
    /\ cancelled = FALSE
    /\ panicked = FALSE
    /\ ExtractIdle
    /\ HeadIdle
    /\ RunIdle
    /\ CacheIdle
    /\ CloneIdle
    /\ ZipIdle

\* variant: the status of the archive response is not looked at
Download_ignoreStatus ==
    /\ mpc = "download" /\ ~panicked
    /\ IF archive \in {"ok", "status"}
       THEN mpc' = "scan" /\ UNCHANGED <<ret, panicked>>
       ELSE IF archive = "entry"
       THEN panicked' = TRUE /\ UNCHANGED <<ret, mpc>>
       ELSE /\ ret' = <<[output |-> <<>>, err |-> TRUE]>>
            /\ mpc' = "done"
            /\ panicked' = panicked
    /\ registryDir' = IF archive = "mkdirtemp" THEN "none"
                      ELSE IF archive = "entry" THEN "removed"
                      ELSE "exists"
    /\ UNCHANGED <<descs, inputs, mcur, fpc, fidx, inputCh, inputClosed, wgN,
                   outputCh, outputClosed, wst, wres, output, cancelled,
                   archive, fret, notFetch>>

\* fetchChainData up to the call of traverse: os.MkdirTemp, the deferred
\* os.RemoveAll (which also runs when an entry makes the function panic) and
\* downloadAndUnzipRegistry
Download ==
    /\ mpc = "download" /\ ~panicked
    /\ IF archive = "ok"
       THEN mpc' = "scan" /\ UNCHANGED <<ret, panicked>>
       ELSE IF archive = "entry"
       THEN panicked' = TRUE /\ UNCHANGED <<ret, mpc>>
       ELSE /\ ret' = <<[output |-> <<>>, err |-> TRUE]>>
            /\ mpc' = "done"
            /\ panicked' = panicked
    /\ registryDir' = IF archive = "mkdirtemp" THEN "none"
                      ELSE IF archive = "entry" THEN "removed"
                      ELSE "exists"
    /\ UNCHANGED <<descs, inputs, mcur, fpc, fidx, inputCh, inputClosed, wgN,
                   outputCh, outputClosed, wst, wres, output, cancelled,
                   archive, fret, notFetch>>

\* fetchChainData returns what the download or traverse gave it, and the
\* deferred os.RemoveAll(registryDir) runs
FetchReturn ==
    /\ mpc = "done" /\ ret # <<>> /\ fret = <<>>
    /\ fret' = ret
    /\ registryDir' = IF registryDir = "exists" THEN "removed" ELSE registryDir
    /\ UNCHANGED <<archive, tvars, notFetch>>

NextFetch ==
    \/ Download
    \/ Next
    \/ FetchReturn

SpecFetch == InitFetch /\ [][NextFetch]_vars

\* a batch-aborting condition: the download or the archive fails, or a
\* chain.json file cannot be read or parsed
Fatal ==
    \/ archive \in {"transport", "status", "file", "corrupt"}
    \/ \E k \in DOMAIN descs : descs[k].json # "ok"

\* C11: under a batch-aborting condition no feeder and no worker is ever
\* started, and once fetchChainData is past the download and the scan it has
\* returned an error and no list.
C11_FatalAbortsBatch ==
    Fatal =>
        /\ wst = <<>> /\ inputs = <<>> /\ wgN = 0 /\ fpc = "off"
        /\ mpc \notin {"download", "scan"} =>
              mpc = "done" /\ ret = <<[output |-> <<>>, err |-> TRUE]>>

C11_Witness ==
    /\ mpc = "done"
    /\ archive = "ok"
    /\ Len(descs) = 2
    /\ descs[1].json = "ok" /\ descs[1].cs.Codebase # <<>>
    /\ descs[2].json = "malformed"
    /\ ret # <<>> /\ ret[1].err

-----------------------------------------------------------------------------
(* defaultBranchForRepo: the parse of .git/HEAD *)

\* the components a branch name is made of
BranchSegs == {"main", "master", "Agoric", "release", "v1", "dev"}

\* strings.Join(segs, "/")
RECURSIVE JoinSlash(_)
JoinSlash(segs) ==
    IF Len(segs) = 1 THEN <<segs[1]>>
    ELSE <<segs[1], "/">> \o JoinSlash(Tail(segs))

\* branch names: one to MaxBranchSegs components separated by "/"
BranchNames == { JoinSlash(segs) : segs \in SeqsUpTo(BranchSegs, MaxBranchSegs) \ {<<>>} }

\* the .git/HEAD of a clone whose HEAD is the branch name
RefLine(name, nl) ==
    <<"ref", ":", " ", "refs", "/", "heads", "/">> \o name
        \o (IF nl THEN <<"\n">> ELSE <<>>)

\* contents without exactly one ":": a detached HEAD (a commit id), an empty
\* file, and a line with two ":"
OtherHeads ==
    { <<"4f2a9c", "\n">>, <<>>, <<"ref", ":", " ", "refs", ":", "main", "\n">> }

InitHead ==
    /\ \/ /\ hname \in BranchNames
          /\ \E nl \in BOOLEAN : hcontent = RefLine(hname, nl)
       \/ /\ hname = <<>>
          /\ hcontent \in OtherHeads
    /\ hres = <<>>
    /\ TraverseIdle
    /\ ExtractIdle
    /\ FetchIdle
    /\ RunIdle
    /\ CacheIdle
    /\ CloneIdle
    /\ ZipIdle

ParseHead ==
    /\ hres = <<>>
    /\ hres' = <<parseGitHEAD(hcontent)>>
    /\ UNCHANGED <<hname, hcontent, notHead>>

NextHead == ParseHead

SpecHead == InitHead /\ [][NextHead]_vars

\* C12: a .git/HEAD of the form "ref: refs/heads/<name>", with or without a
\* final newline, is parsed to exactly <name>, also when <name> contains "/";
\* a content without exactly one ":" is an error.
C12_HeadParseReturnsName ==
    hres # <<>> =>
        IF hname # <<>>
        THEN ~hres[1].err /\ hres[1].branch = hname
        ELSE hres[1].err

-----------------------------------------------------------------------------
(* Properties of the two scans of extractCosmosTuples *)

\* the substrings that name the framework, the consensus engine and the
\* interop protocol in a module path
SubSDK == <<"cosmos-sdk">>
SubTM == <<"tendermint", "/", "tendermint">>
SubIBC == <<"/", "ibc">>

\* the positions of a list of module versions whose path contains the substring
Targeting(mods, sub) == {k \in DOMAIN mods : Contains(mods[k].Path, sub)}

\* the last position of a non-empty set of positions
LastOf(K) == CHOOSE k \in K : \A j \in K : j <= k

RequireMods == [i \in DOMAIN xmodF.Require |-> xmodF.Require[i].Mod]
ReplaceMods == [i \in DOMAIN xmodF.Replace |-> xmodF.Replace[i].New]

Extracted == xres # <<>>

\* C13: in the scan of the direct requirements, the family of every target
\* substring that some requirement's path contains gets the version of the
\* last such requirement.
C13_RequireScanLastWins ==
    Extracted =>
        /\ Targeting(RequireMods, SubSDK) # {} =>
              xreq.cosmosSDKVers =
                  RequireMods[LastOf(Targeting(RequireMods, SubSDK))].Version
        /\ Targeting(RequireMods, SubTM) # {} =>
              xreq.tendermintVers =
                  RequireMods[LastOf(Targeting(RequireMods, SubTM))].Version
        /\ Targeting(RequireMods, SubIBC) # {} =>
              xreq.ibcVers =
                  RequireMods[LastOf(Targeting(RequireMods, SubIBC))].Version

\* the value the claims give a family whose substring is sub: the version of
\* the last requirement that targets it when no override target does, and
\* the empty string when no requirement and no override target does
RequireOnly(sub) ==
    Targeting(RequireMods, sub) # {} /\ Targeting(ReplaceMods, sub) = {}

Neither(sub) ==
    Targeting(RequireMods, sub) = {} /\ Targeting(ReplaceMods, sub) = {}

LastRequired(sub) == RequireMods[LastOf(Targeting(RequireMods, sub))].Version

\* C14: a family targeted by a requirement and by no override keeps the
\* requirement's version, without "@"; a family targeted by neither is empty;
\* and a family that no override targets has the value the requirements alone
\* give it, whatever the overrides of the other families are.
C14_RequireKeptWithoutOverride ==
    Extracted =>
        /\ RequireOnly(SubSDK) => xres[1].cosmosSDKVers = LastRequired(SubSDK)
        /\ RequireOnly(SubTM) => xres[1].tendermintVers = LastRequired(SubTM)
        /\ RequireOnly(SubIBC) => xres[1].ibcVers = LastRequired(SubIBC)
        /\ Neither(SubSDK) => xres[1].cosmosSDKVers = <<>>
        /\ Neither(SubTM) => xres[1].tendermintVers = <<>>
        /\ Neither(SubIBC) => xres[1].ibcVers = <<>>
        /\ Targeting(ReplaceMods, SubSDK) = {} =>
              xres[1].cosmosSDKVers = xreq.cosmosSDKVers
        /\ Targeting(ReplaceMods, SubTM) = {} =>
              xres[1].tendermintVers = xreq.tendermintVers
        /\ Targeting(ReplaceMods, SubIBC) = {} =>
              xres[1].ibcVers = xreq.ibcVers

LastOverride(sub) ==
    LET m == ReplaceMods[LastOf(Targeting(ReplaceMods, sub))]
    IN  m.Version \o <<"@">> \o m.Path

\* C15: in the scan of the override directives, the family of every target
\* substring that some override target contains gets the version of the last
\* such override, followed by "@" and that override's target path.
C15_OverrideScanLastWins ==
    Extracted =>
        /\ Targeting(ReplaceMods, SubSDK) # {} =>
              xrep.cosmosSDKVers = LastOverride(SubSDK)
        /\ Targeting(ReplaceMods, SubTM) # {} =>
              xrep.tendermintVers = LastOverride(SubTM)
        /\ Targeting(ReplaceMods, SubIBC) # {} =>
              xrep.ibcVers = LastOverride(SubIBC)

-----------------------------------------------------------------------------
(* Properties of the resolved fields *)

\* one of the three version fields or the mainnet flag differs from its default
HasResolvedFields(r) ==
    \/ r.IsMainnet # ""
    \/ r.TendermintVersion # <<>>
    \/ r.CosmosSDKVersion # <<>>
    \/ r.IBCVersion # <<>>

\* the records workers hold, the ones on the output channel, the collected
\* ones and the returned ones
RecordsOf(seq) == {seq[k][1] : k \in {j \in DOMAIN seq : seq[j] # <<>>}}

HeldRecords == {wres[i].cs[1] : i \in {j \in DOMAIN wres : wres[j].cs # <<>>}}

SentRecords ==
    RecordsOf(outputCh) \cup RecordsOf(output)
        \cup (IF ret # <<>> THEN RecordsOf(ret[1].output) ELSE {})

\* the pinned go.mod of the record's project was answered 2xx and parsed,
\* and the record's fields are the ones extracted from that manifest
FromParsedManifest(r) ==
    /\ FaceFetchOK(SeedOf(r))
    /\ LET v == extractCosmosTuples(FaceResponse(SeedOf(r)).Body[1])
       IN  /\ r.CosmosSDKVersion = v.cosmosSDKVers
           /\ r.TendermintVersion = v.tendermintVers
           /\ r.IBCVersion = v.ibcVers

\* what run returned to a worker is never changed afterwards, and a record
\* that was collected stays as it is
ResolvedOnce ==
    /\ \A i \in DOMAIN wres : wres[i].cs # <<>> => wres'[i] = wres[i]
    /\ RecordsOf(output) \subseteq RecordsOf(output')

\* C16: a record has a non-default version field or mainnet flag only if the
\* pinned go.mod of its project was answered 2xx and parsed; every record on
\* the output channel, in the output or in the returned list was built from
\* such a manifest; and the fields, once set by run, are not assigned again.
C16_ResolvedOnlyFromParsedManifest ==
    /\ [](/\ \A r \in HeldRecords \cup SentRecords :
                HasResolvedFields(r) => FromParsedManifest(r)
          /\ \A r \in SentRecords : FromParsedManifest(r))
    /\ [][ResolvedOnce]_vars

C16_Witness ==
    /\ Returned
    /\ \E r \in RecordsOf(ret[1].output) : r.CosmosSDKVersion # <<>>
    /\ \E i \in DOMAIN wst :
          /\ wst[i] = "done"
          /\ URLParses(inputs[i][1])
          /\ FaceResponse(inputs[i][1]).StatusCode = 200
          /\ FaceResponse(inputs[i][1]).Body = <<>>

-----------------------------------------------------------------------------
(* Properties of the barrier of traverse *)

\* every input project has a worker and every worker has exited
AllDispatchedAndFinished ==
    /\ Len(wst) = Len(inputs)
    /\ \A i \in DOMAIN wst : wst[i] = "done"

\* C18: the output channel is closed, and traverse returns its list, only
\* when every input project has been dispatched and every worker has finished.
C18_BarrierBeforeReturn ==
    /\ outputClosed => AllDispatchedAndFinished
    /\ ret # <<>> => AllDispatchedAndFinished

-----------------------------------------------------------------------------
(* fetcher.run of sibling projects, goroutine by goroutine *)

\* frCh := make(chan *csErr, 1); latestCh := make(chan *csErr, 1)
ResultChCap == 1

\* the projects with a codebase
RunSeeds == {d.cs : d \in {e \in Descriptors : e.json = "ok" /\ e.cs.Codebase # <<>>}}

Tasks == DOMAIN rpc

InitRun ==
    /\ rseed \in [1..MaxTasks -> RunSeeds]
    /\ rpc = [t \in 1..MaxTasks |-> "start"]
    /\ rcancel = [t \in 1..MaxTasks |-> FALSE]
    /\ bcancel = FALSE
    /\ fgo = [t \in 1..MaxTasks |-> "off"]
    /\ fmodRes = [t \in 1..MaxTasks |-> <<>>]
    /\ fcse = [t \in 1..MaxTasks |-> <<>>]
    /\ frCh = [t \in 1..MaxTasks |-> <<>>]
    /\ lgo = [t \in 1..MaxTasks |-> "off"]
    /\ latestCh = [t \in 1..MaxTasks |-> <<>>]
    /\ rface = [t \in 1..MaxTasks |-> <<>>]
    /\ rret = [t \in 1..MaxTasks |-> <<>>]
    /\ TraverseIdle
    /\ ExtractIdle
    /\ FetchIdle
    /\ HeadIdle
    /\ CacheIdle
    /\ CloneIdle
    /\ ZipIdle

\* the ctx of call t, derived from the one it was handed, is done
CtxDone(t) == rcancel[t] \/ bcancel

\* run up to the start of its two goroutines; a URL that does not parse
\* returns before the ctx is derived
RunStart(t) ==
    /\ rpc[t] = "start"
    /\ IF urlParse(rseed[t].Codebase[1].GitRepoURL).err
       THEN /\ rret' = [rret EXCEPT ![t] = <<Err>>]
            /\ rpc' = [rpc EXCEPT ![t] = "ret"]
            /\ UNCHANGED <<fgo, lgo>>
       ELSE /\ rpc' = [rpc EXCEPT ![t] = "recvFace"]
            /\ fgo' = [fgo EXCEPT ![t] = "fetch"]
            /\ lgo' = [lgo EXCEPT ![t] = "run"]
            /\ rret' = rret
    /\ UNCHANGED <<rseed, rcancel, bcancel, fmodRes, fcse, frCh, latestCh, rface,
                   notRun>>

\* the face-value goroutine: fr.retrieveModFile returns
FaceFetch(t) ==
    /\ fgo[t] = "fetch"
    /\ LET url == rawGoModURL(OrgRepoOf(rseed[t]), rseed[t])
       IN  /\ fmodRes' = [fmodRes EXCEPT ![t] =
                            IF CtxDone(t) \/ RoundTrip(url).err THEN <<>>
                            ELSE <<RoundTrip(url)>>]
           /\ fcse' = [fcse EXCEPT ![t] = <<retrieveModFile(CtxDone(t), url, rseed[t])>>]
    /\ fgo' = [fgo EXCEPT ![t] = "send"]
    /\ UNCHANGED <<rseed, rpc, rcancel, bcancel, frCh, lgo, latestCh, rface, rret,
                   notRun>>

\* the face-value goroutine: frCh <- &csErr{...}; close(frCh); the send needs
\* room in the buffer
FaceSend(t) ==
    /\ fgo[t] = "send"
    /\ Len(frCh[t]) < ResultChCap
    /\ frCh' = [frCh EXCEPT ![t] = frCh[t] \o fcse[t]]
    /\ fgo' = [fgo EXCEPT ![t] = "done"]
    /\ UNCHANGED <<rseed, rpc, rcancel, bcancel, fmodRes, fcse, lgo, latestCh, rface,
                   rret, notRun>>

\* variant: latestCh has no buffer, the send waits for run to receive
LatestRun_unbuffered(t) ==
    /\ lgo[t] = "run"
    /\ rpc[t] = "recvLatest"
    /\ latestCh' = [latestCh EXCEPT ![t] =
                      Append(latestCh[t],
                             latestGoroutine(CtxDone(t), OrgRepoOf(rseed[t]), rseed[t]))]
    /\ lgo' = [lgo EXCEPT ![t] = "done"]
    /\ UNCHANGED <<rseed, rpc, rcancel, bcancel, fgo, fmodRes, fcse, frCh, rface, rret,
                   notRun>>

\* the latest goroutine, from its start to close(latestCh); the deferred send
\* needs room in the buffer
LatestRun(t) ==
    /\ lgo[t] = "run"
    /\ Len(latestCh[t]) < ResultChCap
    /\ latestCh' = [latestCh EXCEPT ![t] =
                      Append(latestCh[t],
                             latestGoroutine(CtxDone(t), OrgRepoOf(rseed[t]), rseed[t]))]
    /\ lgo' = [lgo EXCEPT ![t] = "done"]
    /\ UNCHANGED <<rseed, rpc, rcancel, bcancel, fgo, fmodRes, fcse, frCh, rface, rret,
                   notRun>>

\* variant: the cancel of the derived ctx also cancels the ctx it derives from
RunRecvFace_cancelParent(t) ==
    /\ rpc[t] = "recvFace"
    /\ frCh[t] # <<>>
    /\ rface' = [rface EXCEPT ![t] = frCh[t]]
    /\ frCh' = [frCh EXCEPT ![t] = <<>>]
    /\ IF frCh[t][1].err \/ frCh[t][1].cs = <<>>
       THEN /\ rret' = [rret EXCEPT ![t] = <<Err>>]
            /\ rpc' = [rpc EXCEPT ![t] = "ret"]
            /\ rcancel' = [rcancel EXCEPT ![t] = TRUE]
            /\ bcancel' = TRUE
       ELSE /\ rpc' = [rpc EXCEPT ![t] = "recvLatest"]
            /\ UNCHANGED <<rret, rcancel, bcancel>>
    /\ UNCHANGED <<rseed, fgo, fmodRes, fcse, lgo, latestCh,
                   notRun>>

\* run: faceValueCSE := <-frCh and the two checks that follow; a return runs
\* the deferred cancel()
RunRecvFace(t) ==
    /\ rpc[t] = "recvFace"
    /\ frCh[t] # <<>>
    /\ rface' = [rface EXCEPT ![t] = frCh[t]]
    /\ frCh' = [frCh EXCEPT ![t] = <<>>]
    /\ IF frCh[t][1].err \/ frCh[t][1].cs = <<>>
       THEN /\ rret' = [rret EXCEPT ![t] = <<Err>>]
            /\ rpc' = [rpc EXCEPT ![t] = "ret"]
            /\ rcancel' = [rcancel EXCEPT ![t] = TRUE]
            /\ bcancel' = bcancel
       ELSE /\ rpc' = [rpc EXCEPT ![t] = "recvLatest"]
            /\ UNCHANGED <<rret, rcancel, bcancel>>
    /\ UNCHANGED <<rseed, fgo, fmodRes, fcse, lgo, latestCh,
                   notRun>>

\* run: lcse := <-latestCh, the merge, the return and the deferred cancel()
RunRecvLatest(t) ==
    /\ rpc[t] = "recvLatest"
    /\ latestCh[t] # <<>>
    /\ rret' = [rret EXCEPT ![t] = <<runMerge(rface[t][1].cs[1], latestCh[t][1])>>]
    /\ latestCh' = [latestCh EXCEPT ![t] = <<>>]
    /\ rpc' = [rpc EXCEPT ![t] = "ret"]
    /\ rcancel' = [rcancel EXCEPT ![t] = TRUE]
    /\ UNCHANGED <<rseed, bcancel, fgo, fmodRes, fcse, frCh, lgo, rface,
                   notRun>>

\* the ctx handed to the calls is cancelled: traverse's deferred cancel() or
\* the caller's own
BatchCancel ==
    /\ ~bcancel
    /\ bcancel' = TRUE
    /\ UNCHANGED <<rseed, rpc, rcancel, fgo, fmodRes, fcse, frCh, lgo, latestCh, rface,
                   rret, notRun>>

NextRun ==
    \/ \E t \in Tasks : RunStart(t)
    \/ \E t \in Tasks : FaceFetch(t)
    \/ \E t \in Tasks : FaceSend(t)
    \/ \E t \in Tasks : LatestRun(t)
    \/ \E t \in Tasks : RunRecvFace(t)
    \/ \E t \in Tasks : RunRecvLatest(t)
    \/ BatchCancel

SpecRun == InitRun /\ [][NextRun]_vars

\* the calls of run followed to the end of their goroutines
MaxLiveTasks == 1

InitRunLive ==
    /\ rseed \in [1..MaxLiveTasks -> RunSeeds]
    /\ rpc = [t \in 1..MaxLiveTasks |-> "start"]
    /\ rcancel = [t \in 1..MaxLiveTasks |-> FALSE]
    /\ bcancel = FALSE
    /\ fgo = [t \in 1..MaxLiveTasks |-> "off"]
    /\ fmodRes = [t \in 1..MaxLiveTasks |-> <<>>]
    /\ fcse = [t \in 1..MaxLiveTasks |-> <<>>]
    /\ frCh = [t \in 1..MaxLiveTasks |-> <<>>]
    /\ lgo = [t \in 1..MaxLiveTasks |-> "off"]
    /\ latestCh = [t \in 1..MaxLiveTasks |-> <<>>]
    /\ rface = [t \in 1..MaxLiveTasks |-> <<>>]
    /\ rret = [t \in 1..MaxLiveTasks |-> <<>>]
    /\ TraverseIdle
    /\ ExtractIdle
    /\ FetchIdle
    /\ HeadIdle
    /\ CacheIdle
    /\ CloneIdle
    /\ ZipIdle

\* a goroutine that can complete its send is scheduled
SpecRunLive ==
    /\ InitRunLive
    /\ [][NextRun]_vars
    /\ \A t \in 1..MaxLiveTasks : WF_vars(FaceSend(t)) /\ WF_vars(LatestRun(t))

-----------------------------------------------------------------------------
(* Properties of run and of its manifest fetch *)

\* the face-value request of call t was answered, with a non-2xx status
Non2xx(t) ==
    /\ fmodRes[t] # <<>>
    /\ fmodRes[t][1].StatusCode < 200 \/ fmodRes[t][1].StatusCode > 299

\* C17 as stated: a manifest fetch answered non-2xx returns no error and a
\* record whose three version fields are empty.
C17_Non2xxYieldsEmptyRecord ==
    \A t \in Tasks :
        (fcse[t] # <<>> /\ Non2xx(t)) =>
            /\ ~fcse[t][1].err
            /\ fcse[t][1].cs # <<>>
            /\ fcse[t][1].cs[1].CosmosSDKVersion = <<>>
            /\ fcse[t][1].cs[1].TendermintVersion = <<>>
            /\ fcse[t][1].cs[1].IBCVersion = <<>>

\* C17: a manifest fetch answered non-2xx returns no error and no record at
\* all (nil), and run then fails for the project.
C17_Non2xxYieldsNoRecord ==
    \A t \in Tasks :
        (fcse[t] # <<>> /\ Non2xx(t)) =>
            /\ fcse[t][1] = Nil
            /\ rret[t] # <<>> => rret[t][1] = Err

C17_Witness ==
    \E t \in Tasks :
        /\ Non2xx(t)
        /\ fmodRes[t][1].StatusCode = 404
        /\ fcse[t] = <<Nil>>
        /\ rret[t] = <<Err>>

\* the answer of the network to the face-value request of call t
FaceAnswer(t) ==
    retrieveModFile(FALSE, rawGoModURL(OrgRepoOf(rseed[t]), rseed[t]), rseed[t])

\* one step cancels the scope of a call only when that call returns, never
\* cancels the scope the calls derive from, and a fetch that ends with its
\* scope done ends in an error
ScopeStep ==
    /\ \A t \in Tasks :
          rcancel'[t] # rcancel[t] => rpc[t] # "ret" /\ rpc'[t] = "ret"
    /\ bcancel' # bcancel => rpc' = rpc
    /\ \A t \in Tasks :
          (fgo[t] = "fetch" /\ fgo'[t] # "fetch" /\ CtxDone(t)) => fcse'[t] = <<Err>>

\* C19: when a call of run has returned none of its fetches is in flight;
\* while the batch scope is live, a fetch that has ended got the answer of the
\* network, whatever the sibling calls did; a call's scope is cancelled only
\* by that call's return, the batch scope by no call, and a fetch whose own
\* or batch scope is done is aborted.
C19_CancelStaysInProject ==
    /\ [](\A t \in Tasks :
             /\ rpc[t] = "ret" => fgo[t] # "fetch"
             /\ rcancel[t] => rpc[t] = "ret"
             /\ (fcse[t] # <<>> /\ ~bcancel) => fcse[t][1] = FaceAnswer(t))
    /\ [][ScopeStep]_vars

\* a sibling's fetch is in flight, its scope live, after a call has returned
\* and cancelled its own scope
C19_Witness ==
    \E t, u \in Tasks :
        /\ t # u
        /\ rpc[t] = "ret" /\ rcancel[t]
        /\ fgo[u] = "fetch"
        /\ ~CtxDone(u)

-----------------------------------------------------------------------------
(* fetcher.githubFetchDefaultBranchForRepo called concurrently *)

\* the repositories looked up (orgRepo)
CacheRepos == {"same", "gone", "down", "junk"}

\* What the transport answers for https://api.github.com/repos<orgRepo>.
\* Body is <<>> when the text is no JSON object and <<repository>> otherwise.
APIRoundTrip(orgRepo) ==
    CASE orgRepo = "down" -> [err |-> TRUE,  StatusCode |-> 0,   Body |-> <<>>]
      [] orgRepo = "gone" -> [err |-> FALSE, StatusCode |-> 404, Body |-> <<>>]
      [] orgRepo = "junk" -> [err |-> FALSE, StatusCode |-> 200, Body |-> <<>>]
      [] OTHER            -> [err |-> FALSE, StatusCode |-> 200,
                              Body |-> <<[DefaultBranch |-> "main"]>>]

Callers == DOMAIN cpc

\* a map that was never made: the zero value of the field repoCache
NilMap == <<>>

\* repoCache: make(map[string]*github.Repository)
EmptyMap == [r \in CacheRepos |-> <<>>]

\* a panic in one call ends the process
CachePanicked == \E t \in Callers : cpc[t] = "panic"

\* the results are [err, branch]
BranchErr == [err |-> TRUE, branch |-> ""]

\* a fetcher made by newFetcher, and one call per caller
InitCache ==
    /\ crepo \in [1..MaxCallers -> CacheRepos]
    /\ cpc = [t \in 1..MaxCallers |-> "lock"]
    /\ muHeld = {}
    /\ repoCache = EmptyMap
    /\ crepoVal = [t \in 1..MaxCallers |-> <<>>]
    /\ cret = [t \in 1..MaxCallers |-> <<>>]
    /\ TraverseIdle
    /\ ExtractIdle
    /\ FetchIdle
    /\ HeadIdle
    /\ RunIdle
    /\ CloneIdle
    /\ ZipIdle

\* variant: Lock does not wait for the holder
CacheLock_noWait(t) ==
    /\ cpc[t] = "lock"
    /\ muHeld' = muHeld \cup {t}
    /\ cpc' = [cpc EXCEPT ![t] = "read"]
    /\ UNCHANGED <<crepo, repoCache, crepoVal, cret, notCache>>

\* fr.mu.Lock() before the lookup
CacheLock(t) ==
    /\ cpc[t] = "lock" /\ ~CachePanicked
    /\ muHeld = {}
    /\ muHeld' = {t}
    /\ cpc' = [cpc EXCEPT ![t] = "read"]
    /\ UNCHANGED <<crepo, repoCache, crepoVal, cret, notCache>>

\* variant: the lookup never finds an entry
CacheRead_alwaysMiss(t) ==
    /\ cpc[t] = "read"
    /\ crepoVal' = [crepoVal EXCEPT ![t] = <<>>]
    /\ cpc' = [cpc EXCEPT ![t] = "unlock"]
    /\ UNCHANGED <<crepo, muHeld, repoCache, cret, notCache>>

\* repo, ok := fr.repoCache[orgRepo]; a nil map has no entry
CacheRead(t) ==
    /\ cpc[t] = "read" /\ ~CachePanicked
    /\ crepoVal' = [crepoVal EXCEPT ![t] =
                      IF repoCache = NilMap THEN <<>> ELSE repoCache[crepo[t]]]
    /\ cpc' = [cpc EXCEPT ![t] = "unlock"]
    /\ UNCHANGED <<crepo, muHeld, repoCache, cret, notCache>>

\* variant: a hit is not returned, the request is sent all the same
CacheUnlock_ignoreHit(t) ==
    /\ cpc[t] = "unlock"
    /\ muHeld' = muHeld \ {t}
    /\ cpc' = [cpc EXCEPT ![t] = "request"]
    /\ UNCHANGED <<crepo, repoCache, crepoVal, cret, notCache>>

\* fr.mu.Unlock(), then the return on a hit or the start of the request
CacheUnlock(t) ==
    /\ cpc[t] = "unlock" /\ ~CachePanicked
    /\ muHeld' = muHeld \ {t}
    /\ IF crepoVal[t] # <<>>
       THEN /\ cret' = [cret EXCEPT ![t] =
                          <<[err |-> FALSE, branch |-> crepoVal[t][1].DefaultBranch]>>]
            /\ cpc' = [cpc EXCEPT ![t] = "ret"]
       ELSE /\ cpc' = [cpc EXCEPT ![t] = "request"]
            /\ cret' = cret
    /\ UNCHANGED <<crepo, repoCache, crepoVal, notCache>>

\* variant: the error of json.Unmarshal is ignored and the empty repository
\* is stored
CacheRequest_storeMalformed(t) ==
    /\ cpc[t] = "request"
    /\ LET res == APIRoundTrip(crepo[t])
       IN  IF res.err \/ res.StatusCode < 200 \/ res.StatusCode > 299
           THEN /\ cret' = [cret EXCEPT ![t] = <<BranchErr>>]
                /\ cpc' = [cpc EXCEPT ![t] = "ret"]
                /\ crepoVal' = crepoVal
           ELSE /\ crepoVal' = [crepoVal EXCEPT ![t] =
                                  IF res.Body = <<>> THEN <<[DefaultBranch |-> ""]>>
                                  ELSE res.Body]
                /\ cpc' = [cpc EXCEPT ![t] = "relock"]
                /\ cret' = cret
    /\ UNCHANGED <<crepo, muHeld, repoCache, notCache>>

\* client.Do returns; the status check and json.Unmarshal
CacheRequest(t) ==
    /\ cpc[t] = "request" /\ ~CachePanicked
    /\ LET res == APIRoundTrip(crepo[t])
       IN  IF res.err \/ res.StatusCode < 200 \/ res.StatusCode > 299 \/ res.Body = <<>>
           THEN /\ cret' = [cret EXCEPT ![t] = <<BranchErr>>]
                /\ cpc' = [cpc EXCEPT ![t] = "ret"]
                /\ crepoVal' = crepoVal
           ELSE /\ crepoVal' = [crepoVal EXCEPT ![t] = res.Body]
                /\ cpc' = [cpc EXCEPT ![t] = "relock"]
                /\ cret' = cret
    /\ UNCHANGED <<crepo, muHeld, repoCache, notCache>>

\* fr.mu.Lock() before the store
CacheRelock(t) ==
    /\ cpc[t] = "relock" /\ ~CachePanicked
    /\ muHeld = {}
    /\ muHeld' = {t}
    /\ cpc' = [cpc EXCEPT ![t] = "write"]
    /\ UNCHANGED <<crepo, repoCache, crepoVal, cret, notCache>>

\* fr.repoCache[orgRepo] = repo; an assignment to an entry of a nil map panics
CacheWrite(t) ==
    /\ cpc[t] = "write" /\ ~CachePanicked
    /\ IF repoCache = NilMap
       THEN /\ cpc' = [cpc EXCEPT ![t] = "panic"]
            /\ repoCache' = repoCache
       ELSE /\ repoCache' = [repoCache EXCEPT ![crepo[t]] = crepoVal[t]]
            /\ cpc' = [cpc EXCEPT ![t] = "return"]
    /\ UNCHANGED <<crepo, muHeld, crepoVal, cret, notCache>>

\* return repo.GetDefaultBranch(), nil and the deferred fr.mu.Unlock()
CacheReturn(t) ==
    /\ cpc[t] = "return" /\ ~CachePanicked
    /\ cret' = [cret EXCEPT ![t] =
                  <<[err |-> FALSE, branch |-> crepoVal[t][1].DefaultBranch]>>]
    /\ muHeld' = muHeld \ {t}
    /\ cpc' = [cpc EXCEPT ![t] = "ret"]
    /\ UNCHANGED <<crepo, repoCache, crepoVal, notCache>>

NextCache ==
    \/ \E t \in Callers : CacheLock(t)
    \/ \E t \in Callers : CacheRead(t)
    \/ \E t \in Callers : CacheUnlock(t)
    \/ \E t \in Callers : CacheRequest(t)
    \/ \E t \in Callers : CacheRelock(t)
    \/ \E t \in Callers : CacheWrite(t)
    \/ \E t \in Callers : CacheReturn(t)

SpecCache == InitCache /\ [][NextCache]_vars

\* the ways the repository builds a fetcher
Constructors == {"newFetcher", "NewChainParser", "RetrieveChainData"}

\* the repoCache of a fetcher built by constructor c: only newFetcher makes
\* the map, the two others leave the field at its zero value
FetcherCache(c) == IF c = "newFetcher" THEN EmptyMap ELSE NilMap

\* a fetcher built by any constructor, and one call per caller
InitEntry ==
    /\ crepo \in [1..MaxCallers -> CacheRepos]
    /\ cpc = [t \in 1..MaxCallers |-> "lock"]
    /\ muHeld = {}
    /\ repoCache \in {FetcherCache(c) : c \in Constructors}
    /\ crepoVal = [t \in 1..MaxCallers |-> <<>>]
    /\ cret = [t \in 1..MaxCallers |-> <<>>]
    /\ TraverseIdle
    /\ ExtractIdle
    /\ FetchIdle
    /\ HeadIdle
    /\ RunIdle
    /\ CloneIdle
    /\ ZipIdle

SpecEntry == InitEntry /\ [][NextCache]_vars

\* a step that reads the cache into a local or writes the cache is a step
\* of a caller that holds the mutex
CacheAccessStep ==
    /\ repoCache' # repoCache => \E t \in muHeld : cpc[t] = "write"
    /\ \A t \in Callers :
          (cpc[t] = "read" /\ cpc'[t] # "read") => t \in muHeld

\* C20: a caller is at the read or at the write of the cache only while it
\* holds the mutex, at most one caller holds the mutex, no caller holds it
\* while its request is in flight, and the cache changes only in a step of
\* the holder.
C20_CacheUnderMutex ==
    /\ [](/\ \A t \in Callers :
                /\ cpc[t] \in {"read", "unlock", "write", "return"} => t \in muHeld
                /\ cpc[t] = "request" => t \notin muHeld
          /\ Cardinality(muHeld) <= 1)
    /\ [][CacheAccessStep]_vars

\* two callers looked up the same repository, both missed, and both requests
\* are in flight
C20_Witness ==
    \E t, u \in Callers :
        /\ t # u
        /\ crepo[t] = crepo[u]
        /\ cpc[t] = "request" /\ cpc[u] = "request"
        /\ crepoVal[t] = <<>> /\ crepoVal[u] = <<>>

-----------------------------------------------------------------------------
(* Properties of the entries of the branch cache *)

\* caller t executes fr.repoCache[orgRepo] = repo in this step
WriteStep(t) == cpc[t] = "write" /\ cpc'[t] # "write"

\* C21 as stated: every step that writes a key of the cache finds the key
\* absent, so a key is written at most once.
C21_KeyWrittenOnce ==
    [][\A t \in Callers : WriteStep(t) => repoCache[crepo[t]] = <<>>]_vars

\* a lookup that found an entry returns without request and without write;
\* a write leaves every other key alone and, when the key is already there,
\* stores the repository just fetched over it
WriteOnMissStep ==
    /\ \A t \in Callers :
          (cpc[t] = "unlock" /\ crepoVal[t] # <<>> /\ cpc'[t] # "unlock") =>
              cpc'[t] = "ret" /\ repoCache' = repoCache
    /\ \A t \in Callers :
          WriteStep(t) =>
              /\ repoCache'[crepo[t]] = crepoVal[t]
              /\ \A k \in CacheRepos \ {crepo[t]} : repoCache'[k] = repoCache[k]
    /\ repoCache' # repoCache => \E t \in Callers : WriteStep(t)

\* C21: only a lookup that missed writes its key; a lookup that finds the
\* entry reuses it without writing.  (Lookups that missed concurrently each
\* write the key.)
C21_WriteOnlyAfterMiss ==
    /\ [](\A t \in Callers : cpc[t] = "request" => crepoVal[t] = <<>>)
    /\ [][WriteOnMissStep]_vars

\* a second write of a key is about to happen
C21_Witness ==
    \E t \in Callers :
        /\ cpc[t] = "write"
        /\ repoCache[crepo[t]] # <<>>

\* the lookup of caller t has not read the cache yet and the entry of its
\* repository is stored
StartsAfterStore(t) ==
    /\ cpc[t] \in {"lock", "read"}
    /\ repoCache[crepo[t]] # <<>>

\* caller t sends no request and returns nothing but the branch of the entry
ServedFromCache(t) ==
    /\ cpc[t] \notin {"request", "relock", "write", "return"}
    /\ cret[t] # <<>> =>
          /\ repoCache[crepo[t]] # <<>>
          /\ cret[t][1] = [err |-> FALSE,
                           branch |-> repoCache[crepo[t]][1].DefaultBranch]

\* C22: from the moment the entry of a repository is stored, a lookup of
\* that repository that has yet to read the cache never sends a request and
\* returns the stored default branch.
C22_HitAfterStore ==
    \A t \in 1..MaxCallers : [](StartsAfterStore(t) => []ServedFromCache(t))

\* a lookup has just found the entry another lookup stored
C22_Witness ==
    \E t, u \in Callers :
        /\ t # u
        /\ crepo[t] = crepo[u]
        /\ cpc[t] = "unlock" /\ crepoVal[t] # <<>>
        /\ cpc[u] = "ret" /\ cret[u] # <<>> /\ ~cret[u][1].err

\* the repository-metadata request for the repository ends in a transport
\* error, a non-2xx status or a body that is no JSON object
APIFails(orgRepo) ==
    LET res == APIRoundTrip(orgRepo)
    IN  res.err \/ res.StatusCode < 200 \/ res.StatusCode > 299 \/ res.Body = <<>>

\* the step in which the request of caller t ends in a failure returns the
\* error and leaves the cache as it is
FailedLookupStep ==
    \A t \in Callers :
        (cpc[t] = "request" /\ cpc'[t] # "request" /\ APIFails(crepo[t])) =>
            /\ cpc'[t] = "ret"
            /\ cret'[t] = <<BranchErr>>
            /\ repoCache' = repoCache

\* C23: a lookup whose request fails never reaches the store, returns an
\* error, and the entry of its repository stays as it was (absent).
C23_FailedLookupLeavesCache ==
    /\ [](\A t \in Callers :
             APIFails(crepo[t]) =>
                 /\ cpc[t] \notin {"relock", "write", "return"}
                 /\ cret[t] # <<>> => cret[t][1].err
                 /\ repoCache[crepo[t]] = <<>>)
    /\ [][FailedLookupStep]_vars

C23_Witness ==
    \E t, u \in Callers :
        /\ cpc[t] = "ret" /\ cret[t] = <<BranchErr>>
        /\ APIRoundTrip(crepo[t]).StatusCode = 200
        /\ APIRoundTrip(crepo[t]).Body = <<>>
        /\ repoCache[crepo[t]] = <<>>
        /\ repoCache[crepo[u]] # <<>>

-----------------------------------------------------------------------------
(* Frame of a resolution *)

\* the fields a resolution does not assign
SameSeedFields(r, seed) ==
    /\ r.ChainName = seed.ChainName
    /\ r.NetworkType = seed.NetworkType
    /\ r.Status = seed.Status
    /\ r.PrettyName = seed.PrettyName
    /\ r.Bech32Prefix = seed.Bech32Prefix
    /\ r.Codebase = seed.Codebase

\* C24: the record a successful run returns has the name, classification,
\* status, display name, address prefix and codebase of its seed, and the
\* input list, once scanned, is never modified.
C24_ResolutionFrame ==
    /\ [](\A i \in DOMAIN wst :
             Succeeded(i) => SameSeedFields(wres[i].cs[1], inputs[i][1]))
    /\ [](mpc # "scan" => inputs = findChainJSONFiles(descs).csL)
    /\ [][mpc # "scan" => inputs' = inputs]_vars

C24_Witness ==
    \E i \in DOMAIN wst :
        /\ wst[i] = "done"
        /\ Succeeded(i)
        /\ wres[i].cs[1].PrettyName = "A2"
        /\ wres[i].cs[1].TendermintVersion # <<>>
        /\ inputs[i][1].TendermintVersion = <<>>
        /\ wres[i].cs[1].IsMainnet = "no"

-----------------------------------------------------------------------------
(* One call of defaultBranchForRepo, step by step *)

\* what .git/HEAD of the clone may hold
CloneHeads ==
    { RefLine(<<"main">>, TRUE), RefLine(<<"Agoric">>, FALSE),
      <<"4f2a9c", "\n">>, <<>> }

\* git clone, left alone, succeeds, fails, or never completes
CloneOutcomes == {"ok", "fail", "hang"}

InitClone ==
    /\ dmk \in {"ok", "fail"}
    /\ dclone \in CloneOutcomes
    /\ dread \in {"ok", "fail"}
    /\ dcontent \in CloneHeads
    /\ dpc = "mkdirtemp"
    /\ tmpDir = "none"
    /\ dctx = FALSE
    /\ dret = <<>>
    /\ TraverseIdle
    /\ ExtractIdle
    /\ FetchIdle
    /\ HeadIdle
    /\ RunIdle
    /\ CacheIdle
    /\ ZipIdle

\* os.MkdirTemp and, when it succeeds, defer os.RemoveAll(tmpDir)
CloneMkdirTemp ==
    /\ dpc = "mkdirtemp"
    /\ IF dmk = "fail"
       THEN /\ dret' = <<[err |-> TRUE, branch |-> <<>>]>>
            /\ dpc' = "ret"
            /\ tmpDir' = tmpDir
       ELSE /\ tmpDir' = "exists"
            /\ dpc' = "clone"
            /\ dret' = dret
    /\ UNCHANGED <<dmk, dclone, dread, dcontent, dctx, notClone>>

\* cmd.CombinedOutput() of exec.CommandContext(ctx, "git", "clone", ...)
\* returns: the command ends by itself, or it is killed because ctx is done
CloneRun ==
    /\ dpc = "clone"
    /\ dclone # "hang" \/ dctx
    /\ IF dctx \/ dclone # "ok"
       THEN /\ dret' = <<[err |-> TRUE, branch |-> <<>>]>>
            /\ dpc' = "ret"
            /\ tmpDir' = "removed"
       ELSE /\ dpc' = "read"
            /\ UNCHANGED <<dret, tmpDir>>
    /\ UNCHANGED <<dmk, dclone, dread, dcontent, dctx, notClone>>

\* variant: the directory is removed only on the successful path
CloneReadHEAD_keepDirOnError ==
    /\ dpc = "read"
    /\ IF dread = "fail"
       THEN dret' = <<[err |-> TRUE, branch |-> <<>>]>> /\ tmpDir' = tmpDir
       ELSE dret' = <<parseGitHEAD(dcontent)>> /\ tmpDir' = "removed"
    /\ dpc' = "ret"
    /\ UNCHANGED <<dmk, dclone, dread, dcontent, dctx, notClone>>

\* os.ReadFile of .git/HEAD, the parse, the return and the deferred
\* os.RemoveAll(tmpDir)
CloneReadHEAD ==
    /\ dpc = "read"
    /\ dret' = IF dread = "fail" THEN <<[err |-> TRUE, branch |-> <<>>]>>
               ELSE <<parseGitHEAD(dcontent)>>
    /\ tmpDir' = "removed"
    /\ dpc' = "ret"
    /\ UNCHANGED <<dmk, dclone, dread, dcontent, dctx, notClone>>

\* the caller cancels the ctx it handed to the call
CallerCancel ==
    /\ ~dctx
    /\ dpc # "ret"
    /\ dctx' = TRUE
    /\ UNCHANGED <<dmk, dclone, dread, dcontent, dpc, tmpDir, dret, notClone>>

NextClone ==
    \/ CloneMkdirTemp
    \/ CloneRun
    \/ CloneReadHEAD
    \/ CallerCancel

\* the steps of the call are taken when they can be; the caller is free
\* never to cancel
SpecClone ==
    /\ InitClone
    /\ [][NextClone]_vars
    /\ WF_vars(CloneMkdirTemp)
    /\ WF_vars(CloneRun)
    /\ WF_vars(CloneReadHEAD)

\* C26: a call of defaultBranchForRepo eventually returns, also when git
\* clone never completes by itself and the caller never cancels.
C26_CloneCallReturns == <>(dpc = "ret")

-----------------------------------------------------------------------------
(* The temporary directories of fetchChainData and defaultBranchForRepo *)

InitTemp ==
    /\ archive \in ArchiveOutcomes
    /\ registryDir = "none"
    /\ fret = <<>>
    /\ descs \in SeqsUpTo(FetchDescriptors, MaxTempProjects)
    /\ inputs = <<>> /\ mpc = "download" /\ mcur = 0
    /\ fpc = "off" /\ fidx = 1 /\ inputCh = <<>> /\ inputClosed = FALSE
    /\ wgN = 0 /\ outputCh = <<>> /\ outputClosed = FALSE
    /\ wst = <<>> /\ wres = <<>> /\ output = <<>> /\ ret = <<>>
    /\ cancelled = FALSE /\ panicked = FALSE
    /\ dmk \in {"ok", "fail"}
    /\ dclone \in CloneOutcomes
    /\ dread \in {"ok", "fail"}
    /\ dcontent \in CloneHeads
    /\ dpc = "mkdirtemp"
    /\ tmpDir = "none"
    /\ dctx = FALSE
    /\ dret = <<>>
    /\ ExtractIdle
    /\ HeadIdle
    /\ RunIdle
    /\ CacheIdle
    /\ ZipIdle

NextTemp ==
    \/ NextFetch
    \/ NextClone

SpecTemp == InitTemp /\ [][NextTemp]_vars

\* C25: when fetchChainData has returned, the extraction directory it
\* created is removed, and when defaultBranchForRepo has returned, the clone
\* directory it created is removed, whatever the path of the return; a
\* directory is absent only because os.MkdirTemp did not create it.
C25_TempDirsRemoved ==
    /\ fret # <<>> =>
          registryDir = IF archive = "mkdirtemp" THEN "none" ELSE "removed"
    /\ dpc = "ret" =>
          tmpDir = IF dmk = "fail" THEN "none" ELSE "removed"

\* fetchChainData returned a list and the call of defaultBranchForRepo was
\* cut short by the caller's cancel; both directories are gone
C25_Witness ==
    /\ fret # <<>> /\ ~fret[1].err /\ Len(fret[1].output) = 1
    /\ registryDir = "removed"
    /\ dpc = "ret" /\ dctx /\ dclone = "hang"
    /\ tmpDir = "removed"

-----------------------------------------------------------------------------
(* Properties of the dispatch loop and of the two channels *)

\* C27: the dispatch loop never waits for a worker: with a project received
\* it can start the worker at once, and it can receive as soon as a project
\* is buffered or the input channel is closed, whatever the workers before
\* it are doing.
C27_DispatchNeverWaits ==
    ~panicked =>
        /\ mpc = "spawn" => ENABLED MainSpawn
        /\ (mpc = "range" /\ (inputCh # <<>> \/ inputClosed)) => ENABLED MainRecv

\* as many workers in fr.run at once as there are projects
C27_Witness ==
    /\ Len(inputs) = MaxProjects
    /\ \A i \in DOMAIN wst : wst[i] = "run"
    /\ mpc = "collect"

\* C28: no worker sends on the closed output channel (the send panics), and
\* the feeder is past wg.Wait() only when every project has been dispatched
\* and every worker has exited.
C28_NoSendAfterClose ==
    /\ ~panicked
    /\ \A i \in DOMAIN wst : wst[i] = "send" => ~outputClosed
    /\ fpc \in {"closeOut", "done"} => \A i \in DOMAIN wst : wst[i] = "done"

\* C29: every per-project resolution returns (WorkerRun is one step), and under
\* fair scheduling traverse eventually returns: the feeder, the dispatch loop,
\* the workers and the collection loop never stop before the result is handed
\* back.
C29_TraverseReturns == <>(ret # <<>>)

-----------------------------------------------------------------------------
(* The two goroutines of run and their result channels *)

\* call t has started its goroutines
GoroutinesStarted(t) == fgo[t] # "off" /\ lgo[t] # "off"

\* a goroutine of call t has its record and is at its send
AtSend(t) == fgo[t] = "send" \/ lgo[t] = "run"

\* no goroutine of call t is at its send: each one is still fetching, or has
\* sent, closed its channel and ended
PastSend(t) == fgo[t] \in {"fetch", "done"} /\ lgo[t] = "done"

\* a goroutine of call t that has reached its send can complete it
SendReady(t) ==
    /\ fgo[t] = "send" => ENABLED FaceSend(t)
    /\ lgo[t] = "run" => ENABLED LatestRun(t)

\* a goroutine sends once: after its send its channel gets no further value
OneSendStep(t) ==
    /\ fgo[t] = "done" => fgo'[t] = "done" /\ frCh'[t] \in {frCh[t], <<>>}
    /\ lgo[t] = "done" => lgo'[t] = "done" /\ latestCh'[t] \in {latestCh[t], <<>>}

\* C30: in run, neither goroutine can block forever on its result channel,
\* whichever way run returns: a goroutine at its send always finds room in its
\* channel, it sends once, a call that returns on the URL parse error has
\* started no goroutine, and under fair scheduling a goroutine that has reached
\* its send completes it and ends, also when run has returned without receiving
\* the latest result.
C30_GoroutinesTerminate ==
    /\ [](\A t \in 1..MaxLiveTasks :
            /\ SendReady(t)
            /\ Len(frCh[t]) <= ResultChCap /\ Len(latestCh[t]) <= ResultChCap
            /\ (rpc[t] = "ret" /\ rface[t] = <<>>) => ~GoroutinesStarted(t))
    /\ [][\A t \in 1..MaxLiveTasks : OneSendStep(t)]_vars
    /\ \A t \in 1..MaxLiveTasks : (AtSend(t) ~> PastSend(t))

\* run has returned on a face-value failure, the latest result was never
\* received and sits in the channel, and both goroutines have ended
C30_Witness ==
    \E t \in 1..MaxLiveTasks :
        /\ rpc[t] = "ret" /\ rret[t] = <<Err>> /\ rface[t] # <<>>
        /\ latestCh[t] # <<>>
        /\ fgo[t] = "done" /\ lgo[t] = "done"
-----------------------------------------------------------------------------
(* Overlapping calls of downloadAndUnzipRegistry: each call has its own     *)
(* registryDir, all of them create, write and re-open the one file         *)
(* "registry.zip" of the working directory.  An archive is its entry data   *)
(* followed by its central directory.                                       *)

\* the pipeline runs in the process at the same time
MaxRuns == 2

\* the registry archives the download can return (the registry changes
\* between two requests, or not)
Snapshots == {"s1", "s2"}

\* the bytes of archive s: the entries' data, then the central directory
ArchiveBytes(s) == <<[of |-> s, part |-> "data"], [of |-> s, part |-> "directory"]>>

\* bytes of a file that were never written (a write past the end of the file)
Hole == [of |-> "none", part |-> "hole"]

\* the chain.json entries of archive s, as extracted
ChainFiles(s) ==
    IF s = "s1" THEN {[name |-> "a/chain.json", from |-> "s1"]}
    ELSE {[name |-> "a/chain.json", from |-> s], [name |-> "b/chain.json", from |-> s]}

Runs == DOMAIN zpc

\* a panic in one run ends the process, and with it every run
ZipPanicked == \E r \in Runs : zret[r] = <<"panic">>

InitZip ==
    /\ zipFile = <<>>
    /\ zpc = [r \in 1..MaxRuns |-> "request"]
    /\ zbody = [r \in 1..MaxRuns |-> <<>>]
    /\ zoff = [r \in 1..MaxRuns |-> 0]
    /\ zrd = [r \in 1..MaxRuns |-> <<>>]
    /\ zdir = [r \in 1..MaxRuns |-> {}]
    /\ zret = [r \in 1..MaxRuns |-> <<>>]
    /\ TraverseIdle
    /\ ExtractIdle
    /\ FetchIdle
    /\ HeadIdle
    /\ RunIdle
    /\ CacheIdle
    /\ CloneIdle

\* client.Do(req) answers with a 2xx status and an archive
ZipRequest(r) ==
    /\ zpc[r] = "request" /\ ~ZipPanicked
    /\ \E s \in Snapshots : zbody' = [zbody EXCEPT ![r] = <<s>>]
    /\ zpc' = [zpc EXCEPT ![r] = "create"]
    /\ UNCHANGED <<zipFile, zoff, zrd, zdir, zret, notZip>>

\* fzf, err := os.Create("registry.zip"): the file is truncated, the new
\* descriptor writes from offset 0
ZipCreate(r) ==
    /\ zpc[r] = "create" /\ ~ZipPanicked
    /\ zipFile' = <<>>
    /\ zoff' = [zoff EXCEPT ![r] = 0]
    /\ zpc' = [zpc EXCEPT ![r] = "copy"]
    /\ UNCHANGED <<zbody, zrd, zdir, zret, notZip>>

\* a write of b at offset off of a file
WriteAt(file, off, b) ==
    [i \in 1..(IF off + 1 > Len(file) THEN off + 1 ELSE Len(file)) |->
        IF i = off + 1 THEN b
        ELSE IF i <= Len(file) THEN file[i]
        ELSE Hole]

\* io.Copy(fzf, res.Body), one write at a time, at the descriptor's offset
ZipCopy(r) ==
    /\ zpc[r] = "copy" /\ ~ZipPanicked
    /\ zoff[r] < Len(ArchiveBytes(zbody[r][1]))
    /\ zipFile' = WriteAt(zipFile, zoff[r], ArchiveBytes(zbody[r][1])[zoff[r] + 1])
    /\ zoff' = [zoff EXCEPT ![r] = zoff[r] + 1]
    /\ UNCHANGED <<zpc, zbody, zrd, zdir, zret, notZip>>

\* the copy is complete: fzf.Close()
ZipClose(r) ==
    /\ zpc[r] = "copy" /\ ~ZipPanicked
    /\ zoff[r] = Len(ArchiveBytes(zbody[r][1]))
    /\ zpc' = [zpc EXCEPT ![r] = "open"]
    /\ UNCHANGED <<zipFile, zbody, zoff, zrd, zdir, zret, notZip>>

\* os.Open("registry.zip"), fzf.Stat(), zip.NewReader(fzf, fi.Size()): the
\* central directory is read from the end of the file as it is now
ZipNewReader(r) ==
    /\ zpc[r] = "open" /\ ~ZipPanicked
    /\ IF zipFile # <<>> /\ zipFile[Len(zipFile)].part = "directory"
       THEN /\ zrd' = [zrd EXCEPT ![r] = <<zipFile[Len(zipFile)].of>>]
            /\ zpc' = [zpc EXCEPT ![r] = "extract"]
            /\ zret' = zret
       ELSE /\ zret' = [zret EXCEPT ![r] = <<"err">>]
            /\ zpc' = [zpc EXCEPT ![r] = "done"]
            /\ zrd' = zrd
    /\ UNCHANGED <<zipFile, zbody, zoff, zdir, notZip>>

\* the loop over zr.File: every chain.json entry is created under registryDir
\* and filled from the entry's data, read from the file as it is now; data
\* that is missing or is not what the directory describes makes zf.Open or
\* io.Copy fail, and the code panics on both
ZipExtract(r) ==
    /\ zpc[r] = "extract" /\ ~ZipPanicked
    /\ IF zipFile # <<>> /\ zipFile[1] = [of |-> zrd[r][1], part |-> "data"]
       THEN /\ zdir' = [zdir EXCEPT ![r] = ChainFiles(zrd[r][1])]
            /\ zret' = [zret EXCEPT ![r] = <<"ok">>]
       ELSE /\ zret' = [zret EXCEPT ![r] = <<"panic">>]
            /\ zdir' = zdir
    /\ zpc' = [zpc EXCEPT ![r] = "done"]
    /\ UNCHANGED <<zipFile, zbody, zoff, zrd, notZip>>

NextZip ==
    \/ \E r \in Runs : ZipRequest(r)
    \/ \E r \in Runs : ZipCreate(r)
    \/ \E r \in Runs : ZipCopy(r)
    \/ \E r \in Runs : ZipClose(r)
    \/ \E r \in Runs : ZipNewReader(r)
    \/ \E r \in Runs : ZipExtract(r)

SpecZip == InitZip /\ [][NextZip]_vars

\* C31: overlapping pipeline runs do not interfere: the descriptor files a run
\* extracts into its registryDir come only from the archive that run itself
\* downloaded.
C31_ExtractsOwnArchive ==
    \A r \in Runs : \A f \in zdir[r] : zbody[r] # <<>> /\ f.from = zbody[r][1]

-----------------------------------------------------------------------------
(* The branch cache of the fetchers the repository builds *)

\* C32: every fetcher built by newFetcher, NewChainParser or RetrieveChainData
\* has an initialized branch cache, and the store of
\* githubFetchDefaultBranchForRepo after a successful lookup never fails on an
\* uninitialized map.
C32_StoreNeverPanics ==
    /\ \A t \in Callers : cpc[t] = "write" => repoCache # NilMap
    /\ ~CachePanicked
=============================================================================
